---- MODULE Spec2Model ----
(***************************************************************************)
(* cherrypie: a daemon that applies placement rules to new X11 windows.    *)
(* The model covers the session state of X11Backend (known_clients,        *)
(* handled, pending_startup), the event loop of daemon.rs, rule loading    *)
(* (config.rs, rules.rs) and the action resolution of backend/x11.rs.      *)
(*                                                                         *)
(* Conventions: Option<T> is a sequence of length 0 (None) or 1 (Some);    *)
(* a string is a sequence of one-character strings; window handles are     *)
(* the integers 1..MaxWindows; a client list is a duplicate-free sequence  *)
(* of handles, as a window manager publishes it in _NET_CLIENT_LIST.       *)
(***************************************************************************)
EXTENDS Integers, Sequences, FiniteSets, TLC

\* ---------------------------------------------------------------- bounds
MaxWindows == 2
MaxEnv == 2
MaxRules == 3
MaxPercent == 120

\* --------------------------------------------------------------- helpers
None == <<>>
Some(v) == <<v>>
IsSome(o) == Len(o) = 1
IsNone(o) == Len(o) = 0
Unwrap(o) == o[1]

Range(s) == {s[i] : i \in 1..Len(s)}
Contains(s, v) == \E i \in 1..Len(s) : s[i] = v
NoDup(s) == \A i, j \in 1..Len(s) : i # j => s[i] # s[j]

RECURSIVE Flatten(_)
Flatten(ss) == IF Len(ss) = 0 THEN <<>> ELSE Head(ss) \o Flatten(Tail(ss))

\* Rust integer division truncates toward zero.
TruncDiv(a, b) == IF a >= 0 THEN a \div b ELSE -((-a) \div b)
MaxOf(a, b) == IF a >= b THEN a ELSE b

Windows == 1..MaxWindows
ClientLists == {s \in UNION {[1..n -> Windows] : n \in 0..MaxWindows} : NoDup(s)}
\* Client lists in mapping order of handles allocated in increasing order.
Ascending(s) == \A i, j \in 1..Len(s) : i < j => s[i] < s[j]
InitialClientLists == {s \in ClientLists : Ascending(s)}

\* ------------------------------------------------------- text and parsing
Digits == <<"0", "1", "2", "3", "4", "5", "6", "7", "8", "9">>
IsDigit(c) == Contains(Digits, c)
DigitVal(c) == (CHOOSE i \in 1..10 : Digits[i] = c) - 1

RECURSIVE DigitsValue(_)
DigitsValue(s) ==
    IF Len(s) = 0 THEN 0
    ELSE DigitsValue(SubSeq(s, 1, Len(s) - 1)) * 10 + DigitVal(s[Len(s)])

RECURSIVE StripZeros(_)
StripZeros(s) == IF Len(s) > 1 /\ s[1] = "0" THEN StripZeros(Tail(s)) ELSE s

RECURSIVE DigitsLeq(_, _)
DigitsLeq(a, b) ==
    IF Len(a) = 0 THEN TRUE
    ELSE IF DigitVal(a[1]) # DigitVal(b[1]) THEN DigitVal(a[1]) < DigitVal(b[1])
    ELSE DigitsLeq(Tail(a), Tail(b))

\* |digits| <= |limit| as decimal numbers (no machine integer involved).
MagnitudeFits(digits, limit) ==
    LET d == StripZeros(digits)
    IN Len(d) < Len(limit) \/ (Len(d) = Len(limit) /\ DigitsLeq(d, limit))

IsSigned(s) == Len(s) > 0 /\ s[1] \in {"-", "+"}
IsNegative(s) == Len(s) > 0 /\ s[1] = "-"
Body(s) == IF IsSigned(s) THEN Tail(s) ELSE s
AllDigits(s) == Len(s) > 0 /\ \A i \in 1..Len(s) : IsDigit(s[i])

I32MaxDigits == <<"2","1","4","7","4","8","3","6","4","7">>
I32MinDigits == <<"2","1","4","7","4","8","3","6","4","8">>
I64MaxDigits == <<"9","2","2","3","3","7","2","0","3","6","8","5","4","7","7","5","8","0","7">>
I64MinDigits == <<"9","2","2","3","3","7","2","0","3","6","8","5","4","7","7","5","8","0","8">>

\* s.parse::<i32>(): optional sign, one or more digits, value within i32.
ParseI32(s) ==
    IF AllDigits(Body(s))
       /\ MagnitudeFits(Body(s), IF IsNegative(s) THEN I32MinDigits ELSE I32MaxDigits)
    THEN Some(IF IsNegative(s) THEN 0 - DigitsValue(StripZeros(Body(s)))
              ELSE DigitsValue(StripZeros(Body(s))))
    ELSE None

\* s.parse::<i64>() succeeds (the value is discarded by the validator).
ParseI64Ok(s) ==
    /\ AllDigits(Body(s))
    /\ MagnitudeFits(Body(s), IF IsNegative(s) THEN I64MinDigits ELSE I64MaxDigits)

\* pct.parse::<f64>() for the decimal integer spellings "[+-]digits";
\* the value is kept as an integer number of percent.
ParseF64(s) ==
    IF AllDigits(Body(s)) /\ Len(StripZeros(Body(s))) <= 6
    THEN Some(IF IsNegative(s) THEN 0 - DigitsValue(StripZeros(Body(s)))
              ELSE DigitsValue(StripZeros(Body(s))))
    ELSE None

StripPercent(s) ==
    IF Len(s) > 0 /\ s[Len(s)] = "%" THEN Some(SubSeq(s, 1, Len(s) - 1)) ELSE None

\* Regex::new: a pattern with an unclosed bracket does not compile.
RegexNew(pat) ==
    LET opens == {i \in 1..Len(pat) : pat[i] = "["}
        bad == \E i \in opens : \A j \in (i + 1)..Len(pat) : pat[j] # "]"
    IN IF bad THEN None ELSE Some(pat)

\* Regex::is_match for a literal pattern: unanchored search.
IsMatch(re, text) ==
    \E i \in 0..(Len(text) - Len(re)) : SubSeq(text, i + 1, i + Len(re)) = re

Uppers == <<"A", "B", "C", "D", "E", "F", "G", "H", "I", "J", "K", "L", "M",
            "N", "O", "P", "Q", "R", "S", "T", "U", "V", "W", "X", "Y", "Z">>
Lowers == <<"a", "b", "c", "d", "e", "f", "g", "h", "i", "j", "k", "l", "m",
            "n", "o", "p", "q", "r", "s", "t", "u", "v", "w", "x", "y", "z">>
ToAsciiLower(c) ==
    IF Contains(Uppers, c) THEN Lowers[CHOOSE i \in 1..26 : Uppers[i] = c] ELSE c
\* Mutant: the type is compared as written.
EqIgnoreAsciiCase_exact(a, b) == a = b

EqIgnoreAsciiCase(a, b) ==
    /\ Len(a) = Len(b)
    /\ \A i \in 1..Len(a) : ToAsciiLower(a[i]) = ToAsciiLower(b[i])

\* ------------------------------------------------------------- config.rs
NAMED_POSITIONS ==
    << <<"c","e","n","t","e","r">>, <<"t","o","p","-","l","e","f","t">>,
       <<"t","o","p","-","r","i","g","h","t">>,
       <<"b","o","t","t","o","m","-","l","e","f","t">>,
       <<"b","o","t","t","o","m","-","r","i","g","h","t">>,
       <<"l","e","f","t">>, <<"r","i","g","h","t">>, <<"t","o","p">>,
       <<"b","o","t","t","o","m">> >>

validate_dimension_string(s) ==
    LET pct == StripPercent(s)
    IN IF IsSome(pct) THEN IsSome(ParseF64(Unwrap(pct))) ELSE ParseI64Ok(s)

validate_position(pos) ==
    CASE pos.kind = "Named" -> Contains(NAMED_POSITIONS, pos.name)
      [] pos.kind = "Absolute" -> TRUE
      [] pos.kind = "Flexible" ->
            \A j \in 1..2 : validate_dimension_string(pos.parts[j])

validate_size(sz) ==
    CASE sz.kind = "Absolute" -> TRUE
      [] sz.kind = "Flexible" ->
            \A j \in 1..2 : validate_dimension_string(sz.parts[j])

HasMatcher(rule) ==
    ~(IsNone(rule.class) /\ IsNone(rule.title) /\ IsNone(rule.role)
      /\ IsNone(rule.process) /\ IsNone(rule.window_type))

\* Mutant: load does not look for a matcher.
load_without_matcher_check(file) ==
    IF ~file.exists \/ ~file.toml_ok THEN None
    ELSE IF \A i \in 1..Len(file.rule) :
                /\ IsSome(file.rule[i].position)
                      => validate_position(Unwrap(file.rule[i].position))
                /\ IsSome(file.rule[i].size)
                      => validate_size(Unwrap(file.rule[i].size))
         THEN Some([rule |-> file.rule])
         ELSE None

\* config::load on a file: Some(config) on Ok, None on Err.
load(file) ==
    IF ~file.exists \/ ~file.toml_ok THEN None
    ELSE IF \A i \in 1..Len(file.rule) :
                /\ HasMatcher(file.rule[i])
                /\ IsSome(file.rule[i].position)
                      => validate_position(Unwrap(file.rule[i].position))
                /\ IsSome(file.rule[i].size)
                      => validate_size(Unwrap(file.rule[i].size))
         THEN Some([rule |-> file.rule])
         ELSE None

\* -------------------------------------------------------------- rules.rs
NamedPositionOf ==
    <<"Center", "TopLeft", "TopRight", "BottomLeft", "BottomRight",
      "Left", "Right", "Top", "Bottom">>

\* parse_dimension: Some(DimensionVal) on Ok, None on Err.  Percent keeps
\* the fraction val / 100.0 as its numerator over 100.
parse_dimension(s) ==
    LET pct == StripPercent(s)
    IN IF IsSome(pct)
       THEN IF IsSome(ParseF64(Unwrap(pct)))
            THEN Some([kind |-> "Percent", v |-> Unwrap(ParseF64(Unwrap(pct)))])
            ELSE None
       ELSE IF IsSome(ParseI32(s))
            THEN Some([kind |-> "Pixels", v |-> Unwrap(ParseI32(s))])
            ELSE None

compile_monitor(val) == val

compile_position(val) ==
    CASE val.kind = "Named" ->
            IF Contains(NAMED_POSITIONS, val.name)
            THEN Some([kind |-> "Named",
                       anchor |-> NamedPositionOf[
                           CHOOSE i \in 1..9 : NAMED_POSITIONS[i] = val.name]])
            ELSE None
      [] val.kind = "Absolute" ->
            Some([kind |-> "Absolute", x |-> val.coords[1], y |-> val.coords[2]])
      [] val.kind = "Flexible" ->
            IF IsSome(parse_dimension(val.parts[1]))
               /\ IsSome(parse_dimension(val.parts[2]))
            THEN Some([kind |-> "Flexible",
                       x |-> Unwrap(parse_dimension(val.parts[1])),
                       y |-> Unwrap(parse_dimension(val.parts[2]))])
            ELSE None

compile_size(val) ==
    CASE val.kind = "Absolute" ->
            Some([kind |-> "Absolute", w |-> val.dims[1], h |-> val.dims[2]])
      [] val.kind = "Flexible" ->
            IF IsSome(parse_dimension(val.parts[1]))
               /\ IsSome(parse_dimension(val.parts[2]))
            THEN Some([kind |-> "Flexible",
                       w |-> Unwrap(parse_dimension(val.parts[1])),
                       h |-> Unwrap(parse_dimension(val.parts[2]))])
            ELSE None

compile_pat(pat) == IF IsSome(pat) THEN RegexNew(Unwrap(pat)) ELSE None
PatOk(pat) == IsNone(pat) \/ IsSome(RegexNew(Unwrap(pat)))

\* CompiledRule::compile: Some(rule) on Ok, None on Err.
CompileRule(rule) ==
    IF /\ PatOk(rule.class) /\ PatOk(rule.title)
       /\ PatOk(rule.role) /\ PatOk(rule.process)
       /\ IsSome(rule.position) => IsSome(compile_position(Unwrap(rule.position)))
       /\ IsSome(rule.size) => IsSome(compile_size(Unwrap(rule.size)))
    THEN Some([rule EXCEPT
               !.class = compile_pat(rule.class),
               !.title = compile_pat(rule.title),
               !.role = compile_pat(rule.role),
               !.process = compile_pat(rule.process),
               !.monitor = IF IsSome(rule.monitor)
                           THEN Some(compile_monitor(Unwrap(rule.monitor))) ELSE None,
               !.position = IF IsSome(rule.position)
                            THEN compile_position(Unwrap(rule.position)) ELSE None,
               !.size = IF IsSome(rule.size)
                        THEN compile_size(Unwrap(rule.size)) ELSE None])
    ELSE None

\* rules::compile: all rules or the first error.
RECURSIVE CompileAll(_)
CompileAll(rs) ==
    IF Len(rs) = 0 THEN <<>>
    ELSE <<Unwrap(CompileRule(Head(rs)))>> \o CompileAll(Tail(rs))
compile(config) ==
    IF \A i \in 1..Len(config.rule) : IsSome(CompileRule(config.rule[i]))
    THEN Some(CompileAll(config.rule))
    ELSE None

\* Mutant: process_ok is left out of the conjunction.
matches_without_process(rule, class, title, role, process, window_type) ==
    LET class_ok == IsNone(rule.class) \/ IsMatch(Unwrap(rule.class), class)
        title_ok == IsNone(rule.title) \/ IsMatch(Unwrap(rule.title), title)
        role_ok == IsNone(rule.role) \/ IsMatch(Unwrap(rule.role), role)
        type_ok == IsNone(rule.window_type)
                   \/ EqIgnoreAsciiCase(Unwrap(rule.window_type), window_type)
    IN class_ok /\ title_ok /\ role_ok /\ type_ok

matches(rule, class, title, role, process, window_type) ==
    LET class_ok == IsNone(rule.class) \/ IsMatch(Unwrap(rule.class), class)
        title_ok == IsNone(rule.title) \/ IsMatch(Unwrap(rule.title), title)
        role_ok == IsNone(rule.role) \/ IsMatch(Unwrap(rule.role), role)
        process_ok == IsNone(rule.process) \/ IsMatch(Unwrap(rule.process), process)
        type_ok == IsNone(rule.window_type)
                   \/ EqIgnoreAsciiCase(Unwrap(rule.window_type), window_type)
    IN class_ok /\ title_ok /\ role_ok /\ process_ok /\ type_ok

\* daemon.rs load_rules: config::load then rules::compile, None on either error.
load_rules(file) ==
    IF IsSome(load(file)) THEN compile(Unwrap(load(file))) ELSE None

\* ------------------------------------------------ the windowing server
\* Monitors discovered by query_monitors at connect time.
monitors ==
    << [name |-> <<"X">>, x |-> 0, y |-> 0, width |-> 1920, height |-> 1080],
       [name |-> <<"Y">>, x |-> 1920, y |-> 0, width |-> 1280, height |-> 1024] >>

\* What the server answers for the properties of a window.  Handles above 2
\* stand for a window destroyed before inspection: every read fails.
WindowProps(window) ==
    CASE window = 1 ->
            [wm_class |-> Some(<<"f","o","x">>), net_wm_name |-> Some(<<"W","e","b">>),
             wm_name |-> Some(<<"w">>), role |-> Some(<<"b","r">>),
             pid |-> Some(10), comm |-> Some(<<"f","o","x">>),
             type_atom |-> Some("_NET_WM_WINDOW_TYPE_NORMAL"),
             geometry |-> Some(<<100, 100, 800, 600>>)]
      [] window = 2 ->
            [wm_class |-> Some(<<"k","i","t">>), net_wm_name |-> None,
             wm_name |-> Some(<<"s","h">>), role |-> None,
             pid |-> Some(11), comm |-> Some(<<"s","h">>),
             type_atom |-> Some("_NET_WM_WINDOW_TYPE_DIALOG"),
             geometry |-> Some(<<2000, 50, 640, 480>>)]
      [] OTHER ->
            [wm_class |-> None, net_wm_name |-> None, wm_name |-> None,
             role |-> None, pid |-> None, comm |-> None, type_atom |-> None,
             geometry |-> None]

UnwrapOrDefault(o) == IF IsSome(o) THEN Unwrap(o) ELSE <<>>

get_class(window) == UnwrapOrDefault(WindowProps(window).wm_class)

get_title(window) ==
    IF IsSome(WindowProps(window).net_wm_name)
    THEN Unwrap(WindowProps(window).net_wm_name)
    ELSE UnwrapOrDefault(WindowProps(window).wm_name)

get_role(window) == UnwrapOrDefault(WindowProps(window).role)

get_process_name(window) ==
    IF IsSome(WindowProps(window).pid)
    THEN UnwrapOrDefault(WindowProps(window).comm)
    ELSE <<>>

get_window_type(window) ==
    LET a == WindowProps(window).type_atom
    IN IF IsNone(a) THEN <<"n","o","r","m","a","l">>
       ELSE CASE Unwrap(a) = "_NET_WM_WINDOW_TYPE_NORMAL" -> <<"n","o","r","m","a","l">>
              [] Unwrap(a) = "_NET_WM_WINDOW_TYPE_DIALOG" -> <<"d","i","a","l","o","g">>
              [] Unwrap(a) = "_NET_WM_WINDOW_TYPE_DOCK" -> <<"d","o","c","k">>
              [] Unwrap(a) = "_NET_WM_WINDOW_TYPE_TOOLBAR" -> <<"t","o","o","l","b","a","r">>
              [] Unwrap(a) = "_NET_WM_WINDOW_TYPE_MENU" -> <<"m","e","n","u">>
              [] Unwrap(a) = "_NET_WM_WINDOW_TYPE_UTILITY" -> <<"u","t","i","l","i","t","y">>
              [] Unwrap(a) = "_NET_WM_WINDOW_TYPE_SPLASH" -> <<"s","p","l","a","s","h">>
              [] Unwrap(a) = "_NET_WM_WINDOW_TYPE_DESKTOP" -> <<"d","e","s","k","t","o","p">>
              [] OTHER -> <<"u","n","k","n","o","w","n">>

get_window_geometry(window) == WindowProps(window).geometry

\* --------------------------------------------------- action resolution
\* 2^n, and 2^n modulo 100.
RECURSIVE Pow2(_)
Pow2(n) == IF n = 0 THEN 1 ELSE 2 * Pow2(n - 1)
RECURSIVE Pow2Mod100(_)
Pow2Mod100(n) == IF n = 0 THEN 1 ELSE (2 * Pow2Mod100(n - 1)) % 100

\* floor(log2(p / 100)) for p > 0, and floor(log2(k)) for k > 0.
RECURSIVE Log2Ratio(_, _)
Log2Ratio(num, den) ==
    IF num >= 2 * den THEN 1 + Log2Ratio(num, 2 * den)
    ELSE IF num < den THEN Log2Ratio(2 * num, den) - 1
    ELSE 0
Log2Floor(k) == Log2Ratio(k, 1)

\* (total as f64 * pct) as i32 for pct = p / 100.0, with p >= 0 a whole
\* number and total >= 0, in IEEE 754 double arithmetic.  p / 100.0 is the
\* double nearest to p/100: with s = 52 - floor(log2(p/100)) its mantissa
\* is p * 2^s / 100 rounded to nearest, and r = (p * 2^s) mod 100 tells
\* which way it was rounded.  The product differs from the exact
\* total * p / 100 by far less than 1/100, so the cast truncates to the
\* exact quotient unless that is a whole number k and the rounded product
\* falls below k: that is when p / 100.0 was rounded down (0 < r < 50) and
\* total * r / 100 exceeds half the spacing of the doubles below k, scaled
\* by 2^s.
F64PercentOf(total, p) ==
    LET exact == total * p
        k == exact \div 100
        ep == Log2Ratio(p, 100)
        s == 52 - ep
        r == ((p % 100) * Pow2Mod100(s)) % 100
        ek == IF Pow2(Log2Floor(k)) = k THEN Log2Floor(k) - 1 ELSE Log2Floor(k)
        x == ek - ep - 1
        below == IF x >= 0 THEN total * r > 100 * Pow2(x)
                 ELSE total * r * Pow2(0 - x) > 100
    IN IF exact % 100 # 0 \/ exact = 0 THEN k
       ELSE IF r > 0 /\ r < 50 /\ below THEN k - 1
       ELSE k

resolve_dim(val, total) ==
    CASE val.kind = "Pixels" -> val.v
      [] val.kind = "Percent" ->
            IF val.v >= 0 THEN F64PercentOf(total, val.v)
            ELSE 0 - F64PercentOf(total, 0 - val.v)

\* The monitors of the list whose rectangle holds the centre of geo.
ContainingIn(mons, geo) ==
    LET cx == geo[1] + TruncDiv(geo[3], 2)
        cy == geo[2] + TruncDiv(geo[4], 2)
    IN {i \in 1..Len(mons) :
            /\ cx >= mons[i].x /\ cx < mons[i].x + mons[i].width
            /\ cy >= mons[i].y /\ cy < mons[i].y + mons[i].height}
ContainingMonitors(geo) == ContainingIn(monitors, geo)

DefaultMonitor ==
    [name |-> <<>>, x |-> 0, y |-> 0, width |-> 1920, height |-> 1080]

First(S) == CHOOSE i \in S : \A j \in S : i <= j

\* Mutant: the monitor under the window is preferred to the rule's target.
ResolveMonitorIn_window_first(mons, geo, t) ==
    LET byIndex == IsSome(t) /\ Unwrap(t).kind = "Index"
                   /\ Unwrap(t).idx + 1 <= Len(mons)
        named == IF IsSome(t) /\ Unwrap(t).kind = "Name"
                 THEN {i \in 1..Len(mons) : mons[i].name = Unwrap(t).name}
                 ELSE {}
        under == IF IsSome(geo) THEN ContainingIn(mons, Unwrap(geo)) ELSE {}
    IN IF under # {} THEN mons[First(under)]
       ELSE IF byIndex THEN mons[Unwrap(t).idx + 1]
       ELSE IF named # {} THEN mons[First(named)]
       ELSE IF Len(mons) > 0 THEN mons[1]
       ELSE DefaultMonitor

\* Mutant: a target that resolves to nothing gives the first monitor.
ResolveMonitorIn_no_fallthrough(mons, geo, t) ==
    LET byIndex == IsSome(t) /\ Unwrap(t).kind = "Index"
                   /\ Unwrap(t).idx + 1 <= Len(mons)
        named == IF IsSome(t) /\ Unwrap(t).kind = "Name"
                 THEN {i \in 1..Len(mons) : mons[i].name = Unwrap(t).name}
                 ELSE {}
        under == IF IsSome(geo) /\ IsNone(t) THEN ContainingIn(mons, Unwrap(geo)) ELSE {}
    IN IF byIndex THEN mons[Unwrap(t).idx + 1]
       ELSE IF named # {} THEN mons[First(named)]
       ELSE IF under # {} THEN mons[First(under)]
       ELSE IF Len(mons) > 0 THEN mons[1]
       ELSE DefaultMonitor

\* resolve_monitor on a backend whose monitors field is mons, for a window
\* whose geometry read gives geo and a rule whose monitor field is t.
\* Explicit target first, then the monitor under the window centre, then
\* the first monitor.
ResolveMonitorIn(mons, geo, t) ==
    LET byIndex == IsSome(t) /\ Unwrap(t).kind = "Index"
                   /\ Unwrap(t).idx + 1 <= Len(mons)
        named == IF IsSome(t) /\ Unwrap(t).kind = "Name"
                 THEN {i \in 1..Len(mons) : mons[i].name = Unwrap(t).name}
                 ELSE {}
        under == IF IsSome(geo) THEN ContainingIn(mons, Unwrap(geo)) ELSE {}
    IN IF byIndex THEN mons[Unwrap(t).idx + 1]
       ELSE IF named # {} THEN mons[First(named)]
       ELSE IF under # {} THEN mons[First(under)]
       ELSE IF Len(mons) > 0 THEN mons[1]
       ELSE DefaultMonitor

resolve_monitor(window, rule) ==
    ResolveMonitorIn(monitors, get_window_geometry(window), rule.monitor)

\* Mutant: the centring half is rounded down instead of toward zero.
resolve_position_floor_half(pos, monitor, win_size) ==
    LET ww == IF IsSome(win_size) THEN Unwrap(win_size)[1] ELSE 0
        wh == IF IsSome(win_size) THEN Unwrap(win_size)[2] ELSE 0
        mx == monitor.x
        my == monitor.y
        mw == monitor.width
        mh == monitor.height
        cxm == mx + ((mw - ww) \div 2)
        cym == my + ((mh - wh) \div 2)
    IN CASE pos.kind = "Absolute" -> <<pos.x, pos.y>>
         [] pos.kind = "Flexible" ->
                <<resolve_dim(pos.x, mw) + mx, resolve_dim(pos.y, mh) + my>>
         [] pos.kind = "Named" ->
                CASE pos.anchor = "Center" -> <<cxm, cym>>
                  [] pos.anchor = "TopLeft" -> <<mx, my>>
                  [] pos.anchor = "TopRight" -> <<mx + mw - ww, my>>
                  [] pos.anchor = "BottomLeft" -> <<mx, my + mh - wh>>
                  [] pos.anchor = "BottomRight" -> <<mx + mw - ww, my + mh - wh>>
                  [] pos.anchor = "Left" -> <<mx, cym>>
                  [] pos.anchor = "Right" -> <<mx + mw - ww, cym>>
                  [] pos.anchor = "Top" -> <<cxm, my>>
                  [] pos.anchor = "Bottom" -> <<cxm, my + mh - wh>>

resolve_position(pos, monitor, win_size) ==
    LET ww == IF IsSome(win_size) THEN Unwrap(win_size)[1] ELSE 0
        wh == IF IsSome(win_size) THEN Unwrap(win_size)[2] ELSE 0
        mx == monitor.x
        my == monitor.y
        mw == monitor.width
        mh == monitor.height
        cxm == mx + TruncDiv(mw - ww, 2)
        cym == my + TruncDiv(mh - wh, 2)
    IN CASE pos.kind = "Absolute" -> <<pos.x, pos.y>>
         [] pos.kind = "Flexible" ->
                <<resolve_dim(pos.x, mw) + mx, resolve_dim(pos.y, mh) + my>>
         [] pos.kind = "Named" ->
                CASE pos.anchor = "Center" -> <<cxm, cym>>
                  [] pos.anchor = "TopLeft" -> <<mx, my>>
                  [] pos.anchor = "TopRight" -> <<mx + mw - ww, my>>
                  [] pos.anchor = "BottomLeft" -> <<mx, my + mh - wh>>
                  [] pos.anchor = "BottomRight" -> <<mx + mw - ww, my + mh - wh>>
                  [] pos.anchor = "Left" -> <<mx, cym>>
                  [] pos.anchor = "Right" -> <<mx + mw - ww, cym>>
                  [] pos.anchor = "Top" -> <<cxm, my>>
                  [] pos.anchor = "Bottom" -> <<cxm, my + mh - wh>>

resolve_size(sz, monitor) ==
    CASE sz.kind = "Absolute" -> <<sz.w, sz.h>>
      [] sz.kind = "Flexible" ->
            <<MaxOf(resolve_dim(sz.w, monitor.width), 1),
              MaxOf(resolve_dim(sz.h, monitor.height), 1)>>

\* ---------------------------------------------------- protocol requests
Request(req, window, atom, props, data) ==
    [req |-> req, window |-> window, atom |-> atom, props |-> props, data |-> data]

\* send_client_message: a ClientMessage event sent to the root window; the
\* atoms carried in the data array are listed in props, the numbers in data.
send_client_message(window, msg_type, props, data) ==
    Request("send_event", window, msg_type, props, data)

set_wm_state(window, action, prop1, prop2) ==
    send_client_message(window, "_NET_WM_STATE", <<prop1, prop2>>, <<action, 1, 0>>)

set_decoration(window, decorated) ==
    Request("change_property", window, "_MOTIF_WM_HINTS", <<>>,
            <<2, 0, IF decorated THEN 1 ELSE 0, 0, 0>>)

Clamp(v, lo, hi) == IF v < lo THEN lo ELSE IF v > hi THEN hi ELSE v

\* (opacity.clamp(0.0, 1.0) * 0xFFFFFFFF) as u32, for an opacity given in
\* hundredths; the 32-bit result is the pair <<high 16 bits, low 16 bits>>.
OpacityValue(hundredths) ==
    LET c == Clamp(hundredths, 0, 100)
        h == c * 65535
        q1 == h \div 100
        rest == (h % 100) * 65536 + h
        q2 == rest \div 100
    IN <<q1 + (q2 \div 65536), q2 % 65536>>

IsTrue(o) == IsSome(o) /\ Unwrap(o) = TRUE
IsFalse(o) == IsSome(o) /\ Unwrap(o) = FALSE
When(c, reqs) == IF c THEN reqs ELSE <<>>

ResolvedSize(window, rule) ==
    IF IsSome(rule.size)
    THEN Some(resolve_size(Unwrap(rule.size), resolve_monitor(window, rule)))
    ELSE None

\* Mutant: the window's current size is preferred to the resolved one.
WinSizeFor_live_first(window, rule) ==
    IF IsSome(get_window_geometry(window))
    THEN Some(<<Unwrap(get_window_geometry(window))[3],
                Unwrap(get_window_geometry(window))[4]>>)
    ELSE ResolvedSize(window, rule)

WinSizeFor(window, rule) ==
    IF IsSome(ResolvedSize(window, rule)) THEN ResolvedSize(window, rule)
    ELSE IF IsSome(get_window_geometry(window))
         THEN Some(<<Unwrap(get_window_geometry(window))[3],
                     Unwrap(get_window_geometry(window))[4]>>)
         ELSE None

ResolvedPosition(window, rule) ==
    IF IsSome(rule.position)
    THEN Some(resolve_position(Unwrap(rule.position), resolve_monitor(window, rule),
                               WinSizeFor(window, rule)))
    ELSE None

\* Mutant: the window is moved before it is resized.
apply_rule_move_first(window, rule) ==
    When(IsSome(rule.position),
         <<Request("configure_window", window, "", <<"x", "y">>,
                   Unwrap(ResolvedPosition(window, rule)))>>)
    \o When(IsSome(rule.size),
         <<Request("configure_window", window, "", <<"width", "height">>,
                   Unwrap(ResolvedSize(window, rule)))>>)
    \o When(IsSome(rule.workspace),
         <<send_client_message(window, "_NET_WM_DESKTOP", <<>>,
                               <<Unwrap(rule.workspace), 1, 0, 0, 0>>)>>)
    \o When(IsTrue(rule.maximize),
         <<set_wm_state(window, 1, "_NET_WM_STATE_MAXIMIZED_VERT",
                        "_NET_WM_STATE_MAXIMIZED_HORZ")>>)
    \o When(IsTrue(rule.fullscreen),
         <<set_wm_state(window, 1, "_NET_WM_STATE_FULLSCREEN", "0")>>)
    \o When(IsTrue(rule.pin),
         <<send_client_message(window, "_NET_WM_DESKTOP", <<"0xFFFFFFFF">>,
                               <<1, 0, 0, 0>>),
           set_wm_state(window, 1, "_NET_WM_STATE_STICKY", "0")>>)
    \o When(IsTrue(rule.minimize),
         <<send_client_message(window, "WM_CHANGE_STATE", <<>>, <<3, 0, 0, 0, 0>>)>>)
    \o When(IsTrue(rule.shade),
         <<set_wm_state(window, 1, "_NET_WM_STATE_SHADED", "0")>>)
    \o When(IsTrue(rule.above),
         <<set_wm_state(window, 1, "_NET_WM_STATE_ABOVE", "0")>>)
    \o When(IsTrue(rule.below),
         <<set_wm_state(window, 1, "_NET_WM_STATE_BELOW", "0")>>)
    \o When(IsFalse(rule.decorate), <<set_decoration(window, FALSE)>>)
    \o When(IsTrue(rule.decorate), <<set_decoration(window, TRUE)>>)
    \o When(IsTrue(rule.focus),
         <<send_client_message(window, "_NET_ACTIVE_WINDOW", <<>>, <<1, 0, 0, 0, 0>>)>>)
    \o When(IsSome(rule.opacity),
         <<Request("change_property", window, "_NET_WM_WINDOW_OPACITY", <<>>,
                   OpacityValue(Unwrap(rule.opacity)))>>)

\* Mutant: the decoration hint is written before the stacking requests.
apply_rule_decorate_early(window, rule) ==
    When(IsSome(rule.size),
         <<Request("configure_window", window, "", <<"width", "height">>,
                   Unwrap(ResolvedSize(window, rule)))>>)
    \o When(IsSome(rule.position),
         <<Request("configure_window", window, "", <<"x", "y">>,
                   Unwrap(ResolvedPosition(window, rule)))>>)
    \o When(IsSome(rule.workspace),
         <<send_client_message(window, "_NET_WM_DESKTOP", <<>>,
                               <<Unwrap(rule.workspace), 1, 0, 0, 0>>)>>)
    \o When(IsTrue(rule.maximize),
         <<set_wm_state(window, 1, "_NET_WM_STATE_MAXIMIZED_VERT",
                        "_NET_WM_STATE_MAXIMIZED_HORZ")>>)
    \o When(IsTrue(rule.fullscreen),
         <<set_wm_state(window, 1, "_NET_WM_STATE_FULLSCREEN", "0")>>)
    \o When(IsTrue(rule.pin),
         <<send_client_message(window, "_NET_WM_DESKTOP", <<"0xFFFFFFFF">>,
                               <<1, 0, 0, 0>>),
           set_wm_state(window, 1, "_NET_WM_STATE_STICKY", "0")>>)
    \o When(IsTrue(rule.minimize),
         <<send_client_message(window, "WM_CHANGE_STATE", <<>>, <<3, 0, 0, 0, 0>>)>>)
    \o When(IsTrue(rule.shade),
         <<set_wm_state(window, 1, "_NET_WM_STATE_SHADED", "0")>>)
    \o When(IsFalse(rule.decorate), <<set_decoration(window, FALSE)>>)
    \o When(IsTrue(rule.decorate), <<set_decoration(window, TRUE)>>)
    \o When(IsTrue(rule.above),
         <<set_wm_state(window, 1, "_NET_WM_STATE_ABOVE", "0")>>)
    \o When(IsTrue(rule.below),
         <<set_wm_state(window, 1, "_NET_WM_STATE_BELOW", "0")>>)
    \o When(IsTrue(rule.focus),
         <<send_client_message(window, "_NET_ACTIVE_WINDOW", <<>>, <<1, 0, 0, 0, 0>>)>>)
    \o When(IsSome(rule.opacity),
         <<Request("change_property", window, "_NET_WM_WINDOW_OPACITY", <<>>,
                   OpacityValue(Unwrap(rule.opacity)))>>)

\* Mutant: the window is pinned before it is assigned its workspace.
apply_rule_pin_first(window, rule) ==
    When(IsSome(rule.size),
         <<Request("configure_window", window, "", <<"width", "height">>,
                   Unwrap(ResolvedSize(window, rule)))>>)
    \o When(IsSome(rule.position),
         <<Request("configure_window", window, "", <<"x", "y">>,
                   Unwrap(ResolvedPosition(window, rule)))>>)
    \o When(IsTrue(rule.pin),
         <<send_client_message(window, "_NET_WM_DESKTOP", <<"0xFFFFFFFF">>,
                               <<1, 0, 0, 0>>),
           set_wm_state(window, 1, "_NET_WM_STATE_STICKY", "0")>>)
    \o When(IsSome(rule.workspace),
         <<send_client_message(window, "_NET_WM_DESKTOP", <<>>,
                               <<Unwrap(rule.workspace), 1, 0, 0, 0>>)>>)
    \o When(IsTrue(rule.maximize),
         <<set_wm_state(window, 1, "_NET_WM_STATE_MAXIMIZED_VERT",
                        "_NET_WM_STATE_MAXIMIZED_HORZ")>>)
    \o When(IsTrue(rule.fullscreen),
         <<set_wm_state(window, 1, "_NET_WM_STATE_FULLSCREEN", "0")>>)
    \o When(IsTrue(rule.minimize),
         <<send_client_message(window, "WM_CHANGE_STATE", <<>>, <<3, 0, 0, 0, 0>>)>>)
    \o When(IsTrue(rule.shade),
         <<set_wm_state(window, 1, "_NET_WM_STATE_SHADED", "0")>>)
    \o When(IsTrue(rule.above),
         <<set_wm_state(window, 1, "_NET_WM_STATE_ABOVE", "0")>>)
    \o When(IsTrue(rule.below),
         <<set_wm_state(window, 1, "_NET_WM_STATE_BELOW", "0")>>)
    \o When(IsFalse(rule.decorate), <<set_decoration(window, FALSE)>>)
    \o When(IsTrue(rule.decorate), <<set_decoration(window, TRUE)>>)
    \o When(IsTrue(rule.focus),
         <<send_client_message(window, "_NET_ACTIVE_WINDOW", <<>>, <<1, 0, 0, 0, 0>>)>>)
    \o When(IsSome(rule.opacity),
         <<Request("change_property", window, "_NET_WM_WINDOW_OPACITY", <<>>,
                   OpacityValue(Unwrap(rule.opacity)))>>)

\* Mutant: a toggle set to false removes the state.
apply_rule_clear_false(window, rule) ==
    When(IsSome(rule.size),
         <<Request("configure_window", window, "", <<"width", "height">>,
                   Unwrap(ResolvedSize(window, rule)))>>)
    \o When(IsSome(rule.position),
         <<Request("configure_window", window, "", <<"x", "y">>,
                   Unwrap(ResolvedPosition(window, rule)))>>)
    \o When(IsSome(rule.workspace),
         <<send_client_message(window, "_NET_WM_DESKTOP", <<>>,
                               <<Unwrap(rule.workspace), 1, 0, 0, 0>>)>>)
    \o When(IsTrue(rule.maximize),
         <<set_wm_state(window, 1, "_NET_WM_STATE_MAXIMIZED_VERT",
                        "_NET_WM_STATE_MAXIMIZED_HORZ")>>)
    \o When(IsTrue(rule.fullscreen),
         <<set_wm_state(window, 1, "_NET_WM_STATE_FULLSCREEN", "0")>>)
    \o When(IsTrue(rule.pin),
         <<send_client_message(window, "_NET_WM_DESKTOP", <<"0xFFFFFFFF">>,
                               <<1, 0, 0, 0>>),
           set_wm_state(window, 1, "_NET_WM_STATE_STICKY", "0")>>)
    \o When(IsTrue(rule.minimize),
         <<send_client_message(window, "WM_CHANGE_STATE", <<>>, <<3, 0, 0, 0, 0>>)>>)
    \o When(IsTrue(rule.shade),
         <<set_wm_state(window, 1, "_NET_WM_STATE_SHADED", "0")>>)
    \o When(IsFalse(rule.shade),
         <<set_wm_state(window, 0, "_NET_WM_STATE_SHADED", "0")>>)
    \o When(IsTrue(rule.above),
         <<set_wm_state(window, 1, "_NET_WM_STATE_ABOVE", "0")>>)
    \o When(IsTrue(rule.below),
         <<set_wm_state(window, 1, "_NET_WM_STATE_BELOW", "0")>>)
    \o When(IsFalse(rule.decorate), <<set_decoration(window, FALSE)>>)
    \o When(IsTrue(rule.decorate), <<set_decoration(window, TRUE)>>)
    \o When(IsTrue(rule.focus),
         <<send_client_message(window, "_NET_ACTIVE_WINDOW", <<>>, <<1, 0, 0, 0, 0>>)>>)
    \o When(IsSome(rule.opacity),
         <<Request("change_property", window, "_NET_WM_WINDOW_OPACITY", <<>>,
                   OpacityValue(Unwrap(rule.opacity)))>>)

\* apply_rule: the requests it issues, in order.
apply_rule(window, rule) ==
    When(IsSome(rule.size),
         <<Request("configure_window", window, "", <<"width", "height">>,
                   Unwrap(ResolvedSize(window, rule)))>>)
    \o When(IsSome(rule.position),
         <<Request("configure_window", window, "", <<"x", "y">>,
                   Unwrap(ResolvedPosition(window, rule)))>>)
    \o When(IsSome(rule.workspace),
         <<send_client_message(window, "_NET_WM_DESKTOP", <<>>,
                               <<Unwrap(rule.workspace), 1, 0, 0, 0>>)>>)
    \o When(IsTrue(rule.maximize),
         <<set_wm_state(window, 1, "_NET_WM_STATE_MAXIMIZED_VERT",
                        "_NET_WM_STATE_MAXIMIZED_HORZ")>>)
    \o When(IsTrue(rule.fullscreen),
         <<set_wm_state(window, 1, "_NET_WM_STATE_FULLSCREEN", "0")>>)
    \o When(IsTrue(rule.pin),
         <<send_client_message(window, "_NET_WM_DESKTOP", <<"0xFFFFFFFF">>,
                               <<1, 0, 0, 0>>),
           set_wm_state(window, 1, "_NET_WM_STATE_STICKY", "0")>>)
    \o When(IsTrue(rule.minimize),
         <<send_client_message(window, "WM_CHANGE_STATE", <<>>, <<3, 0, 0, 0, 0>>)>>)
    \o When(IsTrue(rule.shade),
         <<set_wm_state(window, 1, "_NET_WM_STATE_SHADED", "0")>>)
    \o When(IsTrue(rule.above),
         <<set_wm_state(window, 1, "_NET_WM_STATE_ABOVE", "0")>>)
    \o When(IsTrue(rule.below),
         <<set_wm_state(window, 1, "_NET_WM_STATE_BELOW", "0")>>)
    \o When(IsFalse(rule.decorate), <<set_decoration(window, FALSE)>>)
    \o When(IsTrue(rule.decorate), <<set_decoration(window, TRUE)>>)
    \o When(IsTrue(rule.focus),
         <<send_client_message(window, "_NET_ACTIVE_WINDOW", <<>>, <<1, 0, 0, 0, 0>>)>>)
    \o When(IsSome(rule.opacity),
         <<Request("change_property", window, "_NET_WM_WINDOW_OPACITY", <<>>,
                   OpacityValue(Unwrap(rule.opacity)))>>)

\* Mutant: the position and size lines show coordinates resolved against
\* the first monitor.
log_actions_resolved(rule) ==
    LET at == resolve_position(Unwrap(rule.position), monitors[1], None)
        dims == resolve_size(Unwrap(rule.size), monitors[1])
    IN When(IsSome(rule.monitor),
            <<[what |-> "monitor", target |-> rule.monitor, num |-> <<>>]>>)
       \o When(IsSome(rule.position),
            <<[what |-> "position",
               target |-> Some([kind |-> "Absolute", x |-> at[1], y |-> at[2]]),
               num |-> <<>>]>>)
       \o When(IsSome(rule.size),
            <<[what |-> "size",
               target |-> Some([kind |-> "Absolute", w |-> dims[1], h |-> dims[2]]),
               num |-> <<>>]>>)

\* One "[DRY]" line: the action it names, the target it prints with {:?}
\* (monitor, position, size) and the numbers it prints (workspace, opacity).
DryLine(what, target, num) == [what |-> what, target |-> target, num |-> num]

\* log_actions: the lines it prints, in order.  It is given the rule only.
log_actions(rule) ==
    When(IsSome(rule.monitor), <<DryLine("monitor", rule.monitor, <<>>)>>)
    \o When(IsSome(rule.position), <<DryLine("position", rule.position, <<>>)>>)
    \o When(IsSome(rule.size), <<DryLine("size", rule.size, <<>>)>>)
    \o When(IsSome(rule.workspace),
            <<DryLine("workspace", None, <<Unwrap(rule.workspace)>>)>>)
    \o When(IsTrue(rule.maximize), <<DryLine("maximize", None, <<>>)>>)
    \o When(IsTrue(rule.fullscreen), <<DryLine("fullscreen", None, <<>>)>>)
    \o When(IsTrue(rule.pin), <<DryLine("pin", None, <<>>)>>)
    \o When(IsTrue(rule.minimize), <<DryLine("minimize", None, <<>>)>>)
    \o When(IsTrue(rule.shade), <<DryLine("shade", None, <<>>)>>)
    \o When(IsTrue(rule.above), <<DryLine("above", None, <<>>)>>)
    \o When(IsTrue(rule.below), <<DryLine("below", None, <<>>)>>)
    \o When(IsSome(rule.decorate),
            <<DryLine("decorate", None, <<IF Unwrap(rule.decorate) THEN 1 ELSE 0>>)>>)
    \o When(IsTrue(rule.focus), <<DryLine("focus", None, <<>>)>>)
    \o When(IsSome(rule.opacity), <<DryLine("opacity", None, <<Unwrap(rule.opacity)>>)>>)

\* Mutant: the rule is applied whether or not dry_run is set.
handle_new_window_always_apply(window, rules, dry_run) ==
    LET hits == SelectSeq([i \in 1..Len(rules) |-> i],
                    LAMBDA i : matches(rules[i], get_class(window), get_title(window),
                                       get_role(window), get_process_name(window),
                                       get_window_type(window)))
    IN [window |-> window,
        rules |-> rules,
        matched |-> hits,
        requests |-> [k \in 1..Len(hits) |-> apply_rule(window, rules[hits[k]])],
        dry |-> [k \in 1..Len(hits) |->
                        IF ~dry_run THEN <<>> ELSE log_actions(rules[hits[k]])]]

\* Mutant: the loop over the rules ends at the first matching rule.
handle_new_window_first_match(window, rules, dry_run) ==
    LET all == SelectSeq([i \in 1..Len(rules) |-> i],
                    LAMBDA i : matches(rules[i], get_class(window), get_title(window),
                                       get_role(window), get_process_name(window),
                                       get_window_type(window)))
        hits == IF Len(all) > 1 THEN <<all[1]>> ELSE all
    IN [window |-> window,
        rules |-> rules,
        matched |-> hits,
        requests |-> [k \in 1..Len(hits) |->
                        IF ~dry_run THEN apply_rule(window, rules[hits[k]]) ELSE <<>>],
        dry |-> [k \in 1..Len(hits) |->
                        IF ~dry_run THEN <<>> ELSE log_actions(rules[hits[k]])]]

\* Mutant: a dry run stops at the first matching rule.
handle_new_window_dry_first_match(window, rules, dry_run) ==
    LET all == SelectSeq([i \in 1..Len(rules) |-> i],
                    LAMBDA i : matches(rules[i], get_class(window), get_title(window),
                                       get_role(window), get_process_name(window),
                                       get_window_type(window)))
        hits == IF dry_run /\ Len(all) > 1 THEN <<all[1]>> ELSE all
    IN [window |-> window,
        rules |-> rules,
        matched |-> hits,
        requests |-> [k \in 1..Len(hits) |->
                        IF ~dry_run THEN apply_rule(window, rules[hits[k]]) ELSE <<>>],
        dry |-> [k \in 1..Len(hits) |->
                        IF ~dry_run THEN <<>> ELSE log_actions(rules[hits[k]])]]

\* handle_new_window: classify the window, then for every rule of the given
\* rule set that matches, in order, apply it (live) or log it (dry run).
\* The result records the call: the rule set it was given, the indexes of
\* the matching rules, and per matching rule the requests and [DRY] lines.
handle_new_window(window, rules, dry_run) ==
    LET class == get_class(window)
        title == get_title(window)
        role == get_role(window)
        process == get_process_name(window)
        window_type == get_window_type(window)
        hits == SelectSeq([i \in 1..Len(rules) |-> i],
                    LAMBDA i : matches(rules[i], class, title, role, process, window_type))
    IN [window |-> window,
        rules |-> rules,
        matched |-> hits,
        requests |-> [k \in 1..Len(hits) |->
                        IF ~dry_run THEN apply_rule(window, rules[hits[k]]) ELSE <<>>],
        dry |-> [k \in 1..Len(hits) |->
                        IF ~dry_run THEN <<>> ELSE log_actions(rules[hits[k]])]]

\* --------------------------------------------------- configuration files
NoRule ==
    [class |-> None, title |-> None, role |-> None, process |-> None,
     window_type |-> None, workspace |-> None, monitor |-> None,
     position |-> None, size |-> None, maximize |-> None, fullscreen |-> None,
     pin |-> None, minimize |-> None, shade |-> None, above |-> None,
     below |-> None, decorate |-> None, focus |-> None, opacity |-> None]

RuleWith(fields) ==
    [f \in DOMAIN NoRule |-> IF f \in DOMAIN fields THEN fields[f] ELSE NoRule[f]]

File(toml_ok, rule) == [exists |-> TRUE, toml_ok |-> toml_ok, rule |-> rule]

\* The contents the configuration file takes in the model: two valid rule
\* sets, then one file per way a reload is rejected.
ConfigFiles ==
    << File(TRUE,
         << RuleWith([class |-> Some(<<"f","o","x">>),
                      monitor |-> Some([kind |-> "Name", name |-> <<"Y">>]),
                      workspace |-> Some(2),
                      position |-> Some([kind |-> "Named", name |-> <<"c","e","n","t","e","r">>]),
                      size |-> Some([kind |-> "Absolute", dims |-> <<800, 600>>]),
                      fullscreen |-> Some(TRUE), decorate |-> Some(FALSE),
                      above |-> Some(TRUE), focus |-> Some(TRUE),
                      opacity |-> Some(95)]),
            RuleWith([window_type |-> Some(<<"D","I","A","L","O","G">>),
                      position |-> Some([kind |-> "Flexible",
                                         parts |-> << <<"2","5","%">>, <<"5","0">> >>]),
                      size |-> Some([kind |-> "Flexible",
                                     parts |-> << <<"5","0","%">>, <<"1","0","0","%">> >>]),
                      pin |-> Some(TRUE), workspace |-> Some(1)]) >>),
       File(TRUE,
         << RuleWith([class |-> Some(<<"k">>), process |-> Some(<<"s","h">>),
                      position |-> Some([kind |-> "Absolute", coords |-> <<10, 20>>]),
                      maximize |-> Some(TRUE), minimize |-> Some(FALSE)]),
            RuleWith([window_type |-> Some(<<"n","o","r","m","a","l">>),
                      monitor |-> Some([kind |-> "Index", idx |-> 5]),
                      position |-> Some([kind |-> "Named",
                                         name |-> <<"t","o","p","-","r","i","g","h","t">>]),
                      shade |-> Some(TRUE), below |-> Some(TRUE),
                      decorate |-> Some(TRUE)]),
            RuleWith([title |-> Some(<<"s">>),
                      position |-> Some([kind |-> "Flexible",
                                         parts |-> << <<"1","5","0","%">>,
                                                      <<"-","1","0","%">> >>]),
                      size |-> Some([kind |-> "Flexible",
                                     parts |-> << <<"6","4","0">>, <<"0","%">> >>])]) >>),
       File(FALSE, <<>>),
       File(TRUE, << RuleWith([class |-> Some(<<"f","o","x">>), workspace |-> Some(3)]),
                     RuleWith([workspace |-> Some(3)]) >>),
       File(TRUE, << RuleWith([class |-> Some(<<"[","k">>), workspace |-> Some(3)]) >>),
       File(TRUE,
         << RuleWith([class |-> Some(<<"k">>),
                      position |-> Some([kind |-> "Named",
                                         name |-> <<"m","i","d">>])]) >>),
       File(TRUE,
         << RuleWith([class |-> Some(<<"k">>),
                      size |-> Some([kind |-> "Flexible",
                                     parts |-> << <<"5","0","%">>, <<"x">> >>])]) >>),
       [exists |-> FALSE, toml_ok |-> FALSE, rule |-> <<>>] >>

ConfigIds == 1..Len(ConfigFiles)

\* X11 events the daemon receives: only the root window has an event mask
\* (PROPERTY_CHANGE), so every event is a PropertyNotify of a root property.
ClientListEvent == [window |-> "root", atom |-> "_NET_CLIENT_LIST"]
Events == {ClientListEvent, [window |-> "root", atom |-> "_NET_ACTIVE_WINDOW"]}

\* ------------------------------------------------------------ the state
VARIABLES
    pc,                 \* where run / event_loop stands
    rules,              \* event_loop: the active rule set
    dry_run,            \* --dry-run; this daemon runs with it
    signal_fd,          \* signalfd descriptor, -1 when it could not be made
    inotify_fd,         \* inotify descriptor, -1 when there is no watch
    revents,            \* the sources the last poll reported readable
    known_clients,      \* X11Backend fields
    handled,
    pending_startup,
    client_list_changed,\* process_events local
    log,                \* every handle_new_window call so far, in order
    live,               \* the same backend and log for a daemon run without
                        \* --dry-run on the same rules, events and lists
    config,             \* which of ConfigFiles the file on disk is
    clients,            \* _NET_CLIENT_LIST on the server
    sock,               \* events sent by the server, unread in the socket
    buf,                \* events read off the socket while awaiting a reply
    sig_pending,        \* SIGTERM/SIGINT delivered and not yet read
    ino_pending,        \* inotify event queued and not yet read
    budget,             \* environment steps left
    initial,            \* history: client list read by X11Backend::init
    fetched,            \* history: result of the last get_client_list
    reload,             \* history: the last reload attempt
    gone,               \* history: handled windows seen to leave the list
    waited,             \* history: poll has been called
    probe               \* a single call of one function: its name,
                        \* arguments and, once made, its result

vars == <<pc, rules, dry_run, signal_fd, inotify_fd, revents, known_clients,
          handled, pending_startup, client_list_changed, log, live, config,
          clients, sock, buf, sig_pending, ino_pending, budget, initial,
          fetched, reload, gone, waited, probe>>

envVars == <<config, clients, sock, sig_pending, ino_pending, budget>>
backendVars == <<known_clients, handled, pending_startup, client_list_changed,
                 log, live, fetched, gone, buf>>

Backend ==
    [known_clients |-> known_clients, handled |-> handled,
     pending_startup |-> pending_startup, log |-> log]

NoProbe == [fn |-> "none", args |-> <<>>, result |-> <<>>]

\* main has parsed its arguments as Command::Daemon; nothing is connected.
Init ==
    /\ pc = "main"
    /\ rules = <<>>
    /\ dry_run = TRUE
    /\ signal_fd \in {-1, 3}
    /\ inotify_fd = -1
    /\ revents = {}
    /\ clients \in InitialClientLists
    /\ known_clients = <<>>
    /\ handled = <<>>
    /\ pending_startup = <<>>
    /\ client_list_changed = FALSE
    /\ log = <<>>
    /\ live = [known_clients |-> <<>>, handled |-> <<>>,
               pending_startup |-> <<>>, log |-> <<>>]
    /\ config \in ConfigIds
    /\ sock = <<>>
    /\ buf = <<>>
    /\ sig_pending = FALSE
    /\ ino_pending = FALSE
    /\ budget = MaxEnv
    /\ initial = <<>>
    /\ fetched = <<>>
    /\ reload = [outcome |-> "none", file |-> config, before |-> <<>>,
                 loaded |-> <<>>, at |-> 0]
    /\ gone = {}
    /\ waited = FALSE
    /\ probe = NoProbe

\* ------------------------------------------------- X11Backend passes
\* A log entry: the handle_new_window call and the branch that made it.
Dispatch(via, window, rs, dry) ==
    [via |-> via, call |-> handle_new_window(window, rs, dry)]

\* Mutant: pending_startup is read but not taken.
DrainStartup_keep_pending(b, rs, dry) ==
    [b EXCEPT
       !.handled = b.handled \o b.pending_startup,
       !.log = b.log \o [i \in 1..Len(b.pending_startup) |->
                           Dispatch("startup", b.pending_startup[i], rs, dry)]]

\* Mutant: the startup windows are handled but not pushed to handled.
DrainStartup_unrecorded(b, rs, dry) ==
    [b EXCEPT
       !.pending_startup = <<>>,
       !.log = b.log \o [i \in 1..Len(b.pending_startup) |->
                           Dispatch("startup", b.pending_startup[i], rs, dry)]]

\* process_events, first part: every window of pending_startup is handled
\* and pushed to handled; pending_startup is left empty.
DrainStartup(b, rs, dry) ==
    [b EXCEPT
       !.pending_startup = <<>>,
       !.handled = b.handled \o b.pending_startup,
       !.log = b.log \o [i \in 1..Len(b.pending_startup) |->
                           Dispatch("startup", b.pending_startup[i], rs, dry)]]

\* Mutant: the loop tests known_clients only, not handled.
RECURSIVE NewlyAdded_known_only(_, _, _)
NewlyAdded_known_only(current, known, hd) ==
    IF Len(current) = 0 THEN <<>>
    ELSE IF ~Contains(known, Head(current))
         THEN <<Head(current)>> \o NewlyAdded_known_only(Tail(current), known, hd)
         ELSE NewlyAdded_known_only(Tail(current), known, hd)

\* The windows the loop over `current` handles: in neither known nor handled,
\* where handled grows as the loop goes.
RECURSIVE NewlyAdded(_, _, _)
NewlyAdded(current, known, hd) ==
    IF Len(current) = 0 THEN <<>>
    ELSE IF ~Contains(known, Head(current)) /\ ~Contains(hd, Head(current))
         THEN <<Head(current)>>
              \o NewlyAdded(Tail(current), known, Append(hd, Head(current)))
         ELSE NewlyAdded(Tail(current), known, hd)

\* Mutant: new windows are added to known_clients, closed ones stay in it.
DiffClientList_extend_known(b, current, rs, dry) ==
    LET new == NewlyAdded(current, b.known_clients, b.handled)
    IN [b EXCEPT
          !.handled = b.handled \o new,
          !.log = b.log \o [i \in 1..Len(new) |-> Dispatch("new", new[i], rs, dry)],
          !.known_clients = b.known_clients \o new]

\* Mutant: handled is pruned to the windows still in the client list.
DiffClientList_prune_handled(b, current, rs, dry) ==
    LET new == NewlyAdded(current, b.known_clients, b.handled)
    IN [b EXCEPT
          !.handled = SelectSeq(b.handled, LAMBDA w : Contains(current, w)) \o new,
          !.log = b.log \o [i \in 1..Len(new) |-> Dispatch("new", new[i], rs, dry)],
          !.known_clients = current]

\* Mutant: a window whose class cannot be read is left for a later pass.
DiffClientList_skip_unreadable(b, current, rs, dry) ==
    LET new == SelectSeq(NewlyAdded(current, b.known_clients, b.handled),
                         LAMBDA w : IsSome(WindowProps(w).wm_class))
    IN [b EXCEPT
          !.handled = b.handled \o new,
          !.log = b.log \o [i \in 1..Len(new) |-> Dispatch("new", new[i], rs, dry)],
          !.known_clients = current]

\* Mutant: an empty list is taken for a failed read and known_clients kept.
DiffClientList_keep_on_empty(b, current, rs, dry) ==
    LET new == NewlyAdded(current, b.known_clients, b.handled)
    IN [b EXCEPT
          !.handled = b.handled \o new,
          !.log = b.log \o [i \in 1..Len(new) |-> Dispatch("new", new[i], rs, dry)],
          !.known_clients = IF current = <<>> THEN b.known_clients ELSE current]

\* process_events, the client_list_changed branch.
DiffClientList(b, current, rs, dry) ==
    LET new == NewlyAdded(current, b.known_clients, b.handled)
    IN [b EXCEPT
          !.handled = b.handled \o new,
          !.log = b.log \o [i \in 1..Len(new) |-> Dispatch("new", new[i], rs, dry)],
          !.known_clients = current]

\* get_client_list: the property as the server holds it, or empty when the
\* read fails.
get_client_list(ok) == IF ok THEN clients ELSE <<>>

SetBackend(b) ==
    /\ known_clients' = b.known_clients
    /\ handled' = b.handled
    /\ pending_startup' = b.pending_startup
    /\ log' = b.log

\* --------------------------------------------------------------- main.rs
\* The status the process has ended with: 1 from the exit(1) calls of main,
\* 0 when daemon::run has returned; -1 while it runs.
ExitStatus ==
    CASE pc \in {"config_not_found", "connect_failed"} -> 1
      [] pc \in {"load_failed", "returned"} -> 0
      [] OTHER -> -1

\* Mutant: the backend is initialised without looking for the file.
Main_unchecked ==
    /\ pc = "main"
    /\ pc' = "init"
    /\ UNCHANGED <<rules, dry_run, probe, signal_fd, inotify_fd, revents, reload, waited,
                   initial>>
    /\ UNCHANGED backendVars
    /\ UNCHANGED envVars

\* main, Command::Daemon: a configuration file that does not exist ends the
\* process with exit(1); otherwise the backend is initialised next.
Main ==
    /\ pc = "main"
    /\ pc' = IF ConfigFiles[config].exists THEN "init" ELSE "config_not_found"
    /\ UNCHANGED <<rules, dry_run, probe, signal_fd, inotify_fd, revents, reload, waited,
                   initial>>
    /\ UNCHANGED backendVars
    /\ UNCHANGED envVars

\* Mutant: the initial list is kept in known_clients only.
InitBackend_no_pending ==
    /\ pc = "init"
    /\ \/ /\ pc' = "run"
          /\ known_clients' = clients
          /\ pending_startup' = <<>>
          /\ initial' = clients
          /\ live' = [live EXCEPT !.known_clients = clients,
                                  !.pending_startup = <<>>]
       \/ /\ pc' = "connect_failed"
          /\ UNCHANGED <<known_clients, pending_startup, initial, live>>
    /\ UNCHANGED <<rules, dry_run, probe, signal_fd, inotify_fd, revents, reload, waited,
                   handled, client_list_changed, log, fetched, gone, buf>>
    /\ UNCHANGED envVars

\* WindowManager::init: X11Backend::init connects and reads the client list
\* into known_clients and pending_startup, or fails and main ends the
\* process with exit(1); on success main calls daemon::run.
InitBackend ==
    /\ pc = "init"
    /\ \/ /\ pc' = "run"
          /\ known_clients' = clients
          /\ pending_startup' = clients
          /\ initial' = clients
          /\ live' = [live EXCEPT !.known_clients = clients,
                                  !.pending_startup = clients]
       \/ /\ pc' = "connect_failed"
          /\ UNCHANGED <<known_clients, pending_startup, initial, live>>
    /\ UNCHANGED <<rules, dry_run, probe, signal_fd, inotify_fd, revents, reload, waited,
                   handled, client_list_changed, log, fetched, gone, buf>>
    /\ UNCHANGED envVars

\* ------------------------------------------------------------ daemon.rs
\* Mutant: a failed load starts the event loop with no rules.
Run_without_rules ==
    /\ pc = "run"
    /\ IF IsSome(load_rules(ConfigFiles[config]))
       THEN /\ rules' = Unwrap(load_rules(ConfigFiles[config]))
            /\ \E fd \in {-1, 4} : inotify_fd' = fd
            /\ pc' = "process_events"
       ELSE /\ pc' = "process_events"
            /\ UNCHANGED <<rules, inotify_fd>>
    /\ UNCHANGED <<dry_run, probe, signal_fd, revents, reload, waited, initial>>
    /\ UNCHANGED backendVars
    /\ UNCHANGED envVars

\* run: load the rules; on failure return, else set up inotify and enter
\* event_loop, whose first statement after building fds is process_events.
Run ==
    /\ pc = "run"
    /\ IF IsSome(load_rules(ConfigFiles[config]))
       THEN /\ rules' = Unwrap(load_rules(ConfigFiles[config]))
            /\ \E fd \in {-1, 4} : inotify_fd' = fd
            /\ pc' = "process_events"
       ELSE /\ pc' = "load_failed"
            /\ UNCHANGED <<rules, inotify_fd>>
    /\ UNCHANGED <<dry_run, probe, signal_fd, revents, reload, waited, initial>>
    /\ UNCHANGED backendVars
    /\ UNCHANGED envVars

\* Mutant: any drained event counts as a change of the client list.
ProcessEvents_any_event ==
    /\ pc = "process_events"
    /\ SetBackend(DrainStartup(Backend, rules, dry_run))
    /\ live' = DrainStartup(live, rules, ~dry_run)
    /\ client_list_changed' = (Len(buf \o sock) > 0)
    /\ buf' = <<>>
    /\ sock' = <<>>
    /\ pc' = "client_list"
    /\ UNCHANGED <<rules, dry_run, probe, signal_fd, inotify_fd, revents, reload, waited,
                   initial, fetched, gone, config, clients, sig_pending, ino_pending, budget>>

\* process_events up to the end of the poll_for_event loop.
ProcessEvents ==
    /\ pc = "process_events"
    /\ SetBackend(DrainStartup(Backend, rules, dry_run))
    /\ live' = DrainStartup(live, rules, ~dry_run)
    /\ client_list_changed' = Contains(buf \o sock, ClientListEvent)
    /\ buf' = <<>>
    /\ sock' = <<>>
    /\ pc' = "client_list"
    /\ UNCHANGED <<rules, dry_run, probe, signal_fd, inotify_fd, revents, reload, waited,
                   initial, fetched, gone, config, clients, sig_pending, ino_pending, budget>>

\* The lists the window manager can publish next: a new window is appended,
\* a closed one is removed, or the property is rewritten unchanged.
Remove(l, w) == SelectSeq(l, LAMBDA x : x # w)
NextClientLists(l) ==
    {l} \cup {Append(l, w) : w \in Windows \ Range(l)} \cup {Remove(l, w) : w \in Range(l)}

\* What the window manager can do to _NET_CLIENT_LIST after the reply to
\* get_client_list and before the last reply a getter of handle_new_window
\* waits for: nothing, or one of the changes of ClientListChange, when
\* the environment has n steps left and the loop handles a window.
LateChanges(n, new) ==
    IF n > 0 /\ Len(new) > 0
    THEN {None} \cup {Some(l) : l \in NextClientLists(clients)}
    ELSE {None}

\* process_events from `if client_list_changed` to its end.  The replies
\* awaited here make the connection read whatever the socket holds, the
\* notification of a late change included.  The property read can fail in
\* any pass.
ClientListDiff ==
    /\ pc = "client_list"
    /\ IF client_list_changed
       THEN \E ok \in BOOLEAN :
            \E late \in LateChanges(budget,
                                    NewlyAdded(get_client_list(ok), known_clients,
                                               handled)) :
              /\ fetched' = get_client_list(ok)
              /\ SetBackend(DiffClientList(Backend, get_client_list(ok), rules, dry_run))
              /\ live' = DiffClientList(live, get_client_list(ok), rules, ~dry_run)
              /\ gone' = gone \cup (Range(handled) \ Range(get_client_list(ok)))
              /\ clients' = IF IsSome(late) THEN Unwrap(late) ELSE clients
              /\ buf' = buf \o sock
                        \o (IF IsSome(late) THEN <<ClientListEvent>> ELSE <<>>)
              /\ sock' = <<>>
              /\ budget' = budget - (IF IsSome(late) THEN 1 ELSE 0)
       ELSE UNCHANGED <<fetched, known_clients, handled, pending_startup, log,
                        live, gone, buf, sock, budget, clients>>
    /\ client_list_changed' = FALSE
    /\ pc' = "poll"
    /\ UNCHANGED <<rules, dry_run, probe, signal_fd, inotify_fd, revents, reload, waited,
                   initial, config, sig_pending, ino_pending>>

Ready ==
    (IF Len(sock) > 0 THEN {"x11"} ELSE {})
    \cup (IF signal_fd >= 0 /\ sig_pending THEN {"signal"} ELSE {})
    \cup (IF inotify_fd >= 0 /\ ino_pending THEN {"inotify"} ELSE {})

\* poll returns with at least one source readable.
Poll ==
    /\ pc = "poll"
    /\ Ready # {}
    /\ revents' = Ready
    /\ waited' = TRUE
    /\ pc' = "check_signal"
    /\ UNCHANGED <<rules, dry_run, probe, signal_fd, inotify_fd, reload, initial>>
    /\ UNCHANGED backendVars
    /\ UNCHANGED envVars

\* Mutant: after EINTR the loop goes on to look at the descriptors.
PollInterrupted_check_sources ==
    /\ pc = "poll"
    /\ budget > 0
    /\ budget' = budget - 1
    /\ waited' = TRUE
    /\ pc' = "check_signal"
    /\ revents' = {"x11"}
    /\ UNCHANGED <<rules, dry_run, probe, signal_fd, inotify_fd, reload, initial,
                   config, clients, sock, sig_pending, ino_pending>>
    /\ UNCHANGED backendVars

\* poll fails with EINTR: continue.
PollInterrupted ==
    /\ pc = "poll"
    /\ budget > 0
    /\ budget' = budget - 1
    /\ waited' = TRUE
    /\ UNCHANGED <<pc, rules, dry_run, probe, signal_fd, inotify_fd, revents, reload, initial,
                   config, clients, sock, sig_pending, ino_pending>>
    /\ UNCHANGED backendVars

\* poll fails with another errno: break.
PollError ==
    /\ pc = "poll"
    /\ budget > 0
    /\ budget' = budget - 1
    /\ waited' = TRUE
    /\ pc' = "poll_failed"
    /\ UNCHANGED <<rules, dry_run, probe, signal_fd, inotify_fd, revents, reload, initial,
                   config, clients, sock, sig_pending, ino_pending>>
    /\ UNCHANGED backendVars

\* Mutant: the signal descriptor is drained but the loop goes on.
CheckSignal_no_break ==
    /\ pc = "check_signal"
    /\ IF signal_fd >= 0 /\ "signal" \in revents
       THEN sig_pending' = FALSE
       ELSE UNCHANGED sig_pending
    /\ pc' = "check_inotify"
    /\ UNCHANGED <<rules, dry_run, probe, signal_fd, inotify_fd, revents, reload, waited,
                   initial, config, clients, sock, ino_pending, budget>>
    /\ UNCHANGED backendVars

\* Check signal fd: drain it and break.
CheckSignal ==
    /\ pc = "check_signal"
    /\ IF signal_fd >= 0 /\ "signal" \in revents
       THEN /\ sig_pending' = FALSE
            /\ pc' = "shutdown"
       ELSE /\ pc' = "check_inotify"
            /\ UNCHANGED sig_pending
    /\ UNCHANGED <<rules, dry_run, probe, signal_fd, inotify_fd, revents, reload, waited,
                   initial, config, clients, sock, ino_pending, budget>>
    /\ UNCHANGED backendVars

\* Mutant: a failed reload leaves the daemon without rules.
Reloaded_clear_on_failure(old, file) ==
    IF IsSome(load_rules(file)) THEN Unwrap(load_rules(file)) ELSE <<>>

\* Mutant: a successful reload appends the new rules to the old ones.
Reloaded_merge(old, file) ==
    IF IsSome(load_rules(file)) THEN old \o Unwrap(load_rules(file)) ELSE old

\* if let Some(new_rules) = load_rules(config_path) { rules = new_rules; }
Reloaded(old, file) ==
    IF IsSome(load_rules(file)) THEN Unwrap(load_rules(file)) ELSE old

\* Mutant: the file is loaded again on every wake-up, watch or no watch.
CheckInotify_without_watch ==
    /\ pc = "check_inotify"
    /\ IF TRUE
       THEN /\ ino_pending' = FALSE
            /\ rules' = Reloaded(rules, ConfigFiles[config])
            /\ reload' = [outcome |-> IF IsSome(load(ConfigFiles[config]))
                                         /\ IsSome(compile(Unwrap(load(ConfigFiles[config]))))
                                      THEN "ok" ELSE "failed",
                          file |-> config,
                          before |-> rules,
                          loaded |-> IF IsSome(load_rules(ConfigFiles[config]))
                                     THEN Unwrap(load_rules(ConfigFiles[config]))
                                     ELSE <<>>,
                          at |-> Len(log)]
       ELSE UNCHANGED <<ino_pending, rules, reload>>
    /\ pc' = "check_x11"
    /\ UNCHANGED <<dry_run, probe, signal_fd, inotify_fd, revents, waited, initial,
                   config, clients, sock, sig_pending, budget>>
    /\ UNCHANGED backendVars

\* Mutant: when the connection is readable too, its events are processed
\* first and the reload is left for the next wake-up.
CheckInotify_events_first ==
    /\ pc = "check_inotify"
    /\ IF inotify_fd >= 0 /\ "inotify" \in revents /\ "x11" \notin revents
       THEN /\ ino_pending' = FALSE
            /\ rules' = Reloaded(rules, ConfigFiles[config])
            /\ reload' = [outcome |-> IF IsSome(load(ConfigFiles[config]))
                                         /\ IsSome(compile(Unwrap(load(ConfigFiles[config]))))
                                      THEN "ok" ELSE "failed",
                          file |-> config,
                          before |-> rules,
                          loaded |-> IF IsSome(load_rules(ConfigFiles[config]))
                                     THEN Unwrap(load_rules(ConfigFiles[config]))
                                     ELSE <<>>,
                          at |-> Len(log)]
       ELSE UNCHANGED <<ino_pending, rules, reload>>
    /\ pc' = "check_x11"
    /\ UNCHANGED <<dry_run, probe, signal_fd, inotify_fd, revents, waited, initial,
                   config, clients, sock, sig_pending, budget>>
    /\ UNCHANGED backendVars

\* Mutant: a reload forgets which windows were handled.
CheckInotify_forget_handled ==
    /\ pc = "check_inotify"
    /\ IF inotify_fd >= 0 /\ "inotify" \in revents
       THEN /\ ino_pending' = FALSE
            /\ rules' = Reloaded(rules, ConfigFiles[config])
            /\ reload' = [outcome |-> IF IsSome(load(ConfigFiles[config]))
                                         /\ IsSome(compile(Unwrap(load(ConfigFiles[config]))))
                                      THEN "ok" ELSE "failed",
                          file |-> config,
                          before |-> rules,
                          loaded |-> IF IsSome(load_rules(ConfigFiles[config]))
                                     THEN Unwrap(load_rules(ConfigFiles[config]))
                                     ELSE <<>>,
                          at |-> Len(log)]
       ELSE UNCHANGED <<ino_pending, rules, reload>>
    /\ pc' = "check_x11"
    /\ UNCHANGED <<dry_run, probe, signal_fd, inotify_fd, revents, waited, initial,
                   config, clients, sock, sig_pending, budget>>
    /\ handled' = IF inotify_fd >= 0 /\ "inotify" \in revents THEN <<>> ELSE handled
    /\ UNCHANGED <<known_clients, pending_startup, client_list_changed, log, live,
                   fetched, gone, buf>>

CheckInotify ==
    /\ pc = "check_inotify"
    /\ IF inotify_fd >= 0 /\ "inotify" \in revents
       THEN /\ ino_pending' = FALSE
            /\ rules' = Reloaded(rules, ConfigFiles[config])
            /\ reload' = [outcome |-> IF IsSome(load(ConfigFiles[config]))
                                         /\ IsSome(compile(Unwrap(load(ConfigFiles[config]))))
                                      THEN "ok" ELSE "failed",
                          file |-> config,
                          before |-> rules,
                          loaded |-> IF IsSome(load_rules(ConfigFiles[config]))
                                     THEN Unwrap(load_rules(ConfigFiles[config]))
                                     ELSE <<>>,
                          at |-> Len(log)]
       ELSE UNCHANGED <<ino_pending, rules, reload>>
    /\ pc' = "check_x11"
    /\ UNCHANGED <<dry_run, probe, signal_fd, inotify_fd, revents, waited, initial,
                   config, clients, sock, sig_pending, budget>>
    /\ UNCHANGED backendVars

CheckX11 ==
    /\ pc = "check_x11"
    /\ pc' = IF "x11" \in revents THEN "process_events" ELSE "poll"
    /\ UNCHANGED <<rules, dry_run, probe, signal_fd, inotify_fd, revents, reload, waited,
                   initial>>
    /\ UNCHANGED backendVars
    /\ UNCHANGED envVars

\* run, after event_loop returned: close the descriptors and return.
Cleanup ==
    /\ pc \in {"shutdown", "poll_failed"}
    /\ pc' = "returned"
    /\ UNCHANGED <<rules, dry_run, probe, signal_fd, inotify_fd, revents, reload, waited,
                   initial>>
    /\ UNCHANGED backendVars
    /\ UNCHANGED envVars

\* ------------------------------------------------------ the environment
\* The environment acts where the daemon can tell the difference: the client
\* list can change before run, between the event drain and the client-list
\* fetch, and while poll blocks; a signal or a configuration write is only
\* seen by the next poll, and only through a descriptor that exists.

EnvFrame ==
    /\ UNCHANGED <<pc, rules, dry_run, probe, signal_fd, inotify_fd, revents, reload,
                   waited, initial>>
    /\ UNCHANGED backendVars

\* The window manager rewrites _NET_CLIENT_LIST; the root window reports it.
ClientListChange ==
    /\ pc \in {"run", "client_list", "poll"} /\ budget > 0
    /\ \E l \in NextClientLists(clients) : clients' = l
    /\ sock' = Append(sock, ClientListEvent)
    /\ budget' = budget - 1
    /\ UNCHANGED <<config, sig_pending, ino_pending>>
    /\ EnvFrame

\* Any other event reaches the connection.
OtherEvent ==
    /\ pc \in {"client_list", "poll"} /\ budget > 0
    /\ \E e \in Events \ {ClientListEvent} : sock' = Append(sock, e)
    /\ budget' = budget - 1
    /\ UNCHANGED <<config, clients, sig_pending, ino_pending>>
    /\ EnvFrame

\* SIGTERM or SIGINT is delivered to the signalfd.
Signal ==
    /\ pc = "poll" /\ signal_fd >= 0 /\ budget > 0 /\ ~sig_pending
    /\ sig_pending' = TRUE
    /\ budget' = budget - 1
    /\ UNCHANGED <<config, clients, sock, ino_pending>>
    /\ EnvFrame

\* A file in the configuration directory is closed after writing; the watch,
\* when there is one, queues an event.
WriteConfig ==
    /\ pc = "poll" /\ budget > 0
    /\ \E c \in ConfigIds : config' = c
    /\ ino_pending' = (inotify_fd >= 0 \/ ino_pending)
    /\ budget' = budget - 1
    /\ UNCHANGED <<clients, sock, sig_pending>>
    /\ EnvFrame

Next ==
    \/ Main
    \/ InitBackend
    \/ Run
    \/ ProcessEvents
    \/ ClientListDiff
    \/ Poll
    \/ PollInterrupted
    \/ PollError
    \/ CheckSignal
    \/ CheckInotify
    \/ CheckX11
    \/ Cleanup
    \/ ClientListChange
    \/ OtherEvent
    \/ Signal
    \/ WriteConfig

Spec == Init /\ [][Next]_vars

\* The daemon as a running process whose property reads succeed: a step of
\* run or event_loop that can be taken is taken.  poll returns only when a
\* descriptor is readable, and the environment owes the daemon nothing.
Step ==
    /\ \/ pc \in {"main", "init", "run", "process_events", "client_list",
                  "check_signal", "check_inotify", "check_x11", "shutdown",
                  "poll_failed"}
       \/ pc = "poll" /\ Ready # {}
    /\ pc' \in {"init", "config_not_found", "run", "connect_failed",
                "load_failed", "process_events", "client_list", "poll",
                "check_signal", "check_inotify", "check_x11", "shutdown",
                "poll_failed", "returned"} \ {pc}

LiveNext ==
    \/ Main
    \/ InitBackend
    \/ Run
    \/ ProcessEvents
    \/ ClientListDiff /\ (client_list_changed => fetched' = clients)
    \/ Poll
    \/ PollInterrupted
    \/ PollError
    \/ CheckSignal
    \/ CheckInotify
    \/ CheckX11
    \/ Cleanup
    \/ ClientListChange
    \/ OtherEvent
    \/ Signal
    \/ WriteConfig

LiveSpec == Init /\ [][LiveNext]_vars /\ WF_pc(Step)

\* ------------------------------------------------------- single calls
\* A second specification: one call of one function on arguments drawn from
\* the sets below; the daemon stands still.

daemonVars == <<rules, dry_run, signal_fd, inotify_fd, revents, known_clients,
                handled, pending_startup, client_list_changed, log, live, config,
                clients, sock, buf, sig_pending, ino_pending, budget, initial,
                fetched, reload, gone, waited>>

Idle ==
    /\ rules = <<>> /\ dry_run = FALSE /\ signal_fd = -1 /\ inotify_fd = -1
    /\ revents = {} /\ known_clients = <<>> /\ handled = <<>>
    /\ pending_startup = <<>> /\ client_list_changed = FALSE /\ log = <<>>
    /\ live = [known_clients |-> <<>>, handled |-> <<>>,
               pending_startup |-> <<>>, log |-> <<>>]
    /\ config = 1 /\ clients = <<>> /\ sock = <<>> /\ buf = <<>>
    /\ sig_pending = FALSE /\ ino_pending = FALSE /\ budget = 0
    /\ initial = <<>> /\ fetched = <<>>
    /\ reload = [outcome |-> "none", file |-> 1, before |-> <<>>,
                 loaded |-> <<>>, at |-> 0]
    /\ gone = {} /\ waited = FALSE

Call(fn, args) == [fn |-> fn, args |-> args, result |-> <<>>]
Calling(fn) == pc = "call" /\ probe.fn = fn
Return(value) ==
    /\ probe' = [probe EXCEPT !.result = <<value>>]
    /\ pc' = "returned"
    /\ UNCHANGED daemonVars
Returned(fn) == pc = "returned" /\ probe.fn = fn

\* The action fields of a rule, and the toggles among them.
ActionFields ==
    {"size", "position", "workspace", "maximize", "fullscreen", "pin", "minimize",
     "shade", "above", "below", "decorate", "focus", "opacity"}
Toggles ==
    {"maximize", "fullscreen", "pin", "minimize", "shade", "above", "below",
     "decorate", "focus"}

\* The value a field of a rule under test has when it is set; a toggle is
\* set to true unless it is in the set off.
FieldValue(f, off) ==
    CASE f = "class" -> Some(<<"f","o","x">>)
      [] f = "monitor" -> Some([kind |-> "Name", name |-> <<"X">>])
      [] f = "size" -> Some([kind |-> "Absolute", dims |-> <<1920, 1080>>])
      [] f = "position" -> Some([kind |-> "Absolute", coords |-> <<0, 0>>])
      [] f = "workspace" -> Some(2)
      [] f = "opacity" -> Some(95)
      [] OTHER -> Some(f \notin off)

\* The compiled rule that sets a class matcher, a monitor and the action
\* fields in set.
RuleSetting(set, off) ==
    Unwrap(CompileRule(RuleWith([f \in set \cup {"class", "monitor"} |->
                                    FieldValue(f, off)])))

\* Which toggles are off: none, all, or decorate alone.
OffChoices(set) == {{}, set \cap Toggles, set \cap {"decorate"}}

InitApplyRule ==
    \E set \in SUBSET ActionFields : \E off \in OffChoices(set) :
        probe = Call("apply_rule", <<1, RuleSetting(set, off)>>)

\* Rules whose actions carry the values the resolvers are sensitive to: an
\* opacity in hundredths from -0.50 to 1.50; a named position with or
\* without a size and a monitor, for each window.
InitApplyActions ==
    \/ \E h \in -50..150 :
          probe = Call("apply_rule",
                       <<1, Unwrap(CompileRule(RuleWith([class |-> FieldValue("class", {}),
                                                         opacity |-> Some(h)])))>>)
    \/ \E window \in 1..3, sz \in 1..3, a \in 1..Len(NAMED_POSITIONS),
          mon \in {None, Some([kind |-> "Name", name |-> <<"Y">>])} :
          LET SizeValues ==
                << None, Some([kind |-> "Absolute", dims |-> <<400, 300>>]),
                   Some([kind |-> "Flexible",
                         parts |-> << <<"5","0","%">>, <<"1","0","0","%">> >>]) >>
          IN
          probe = Call("apply_rule",
                       <<window,
                         Unwrap(CompileRule(RuleWith(
                             [class |-> FieldValue("class", {}),
                              monitor |-> mon,
                              size |-> SizeValues[sz],
                              position |-> Some([kind |-> "Named",
                                                 name |-> NAMED_POSITIONS[a]])])))>>)

CallApplyRule ==
    /\ Calling("apply_rule")
    /\ Return(apply_rule(probe.args[1], probe.args[2]))

\* The rules of the two valid configuration files, and the rule sets of
\* up to MaxRules of them.
RulePool ==
    Unwrap(load_rules(ConfigFiles[1])) \o Unwrap(load_rules(ConfigFiles[2]))

InitHandleNewWindow ==
    \E n \in 0..MaxRules : \E pick \in [1..n -> 1..Len(RulePool)] :
        \E window \in 1..3 : \E dry \in BOOLEAN :
            probe = Call("handle_new_window",
                         <<window, [i \in 1..n |-> RulePool[pick[i]]], dry>>)

CallHandleNewWindow ==
    /\ Calling("handle_new_window")
    /\ Return(handle_new_window(probe.args[1], probe.args[2], probe.args[3]))

\* The client_list_changed branch of process_events on a backend that knows
\* and has handled some windows, for client lists that hold window 3, whose
\* properties cannot be read.
InitProcessEvents ==
    \E known \in {<<>>, <<1>>}, hd \in {<<>>, <<1>>, <<3>>},
       current \in {<<3>>, <<1, 3>>, <<3, 2>>, <<1, 2>>},
       n \in {0, 2, Len(RulePool)}, dry \in BOOLEAN :
        probe = Call("process_events",
                     <<[known_clients |-> known, handled |-> hd,
                        pending_startup |-> <<>>, log |-> <<>>],
                       current, SubSeq(RulePool, Len(RulePool) - n + 1, Len(RulePool)),
                       dry>>)

CallProcessEvents ==
    /\ Calling("process_events")
    /\ Return(DiffClientList(probe.args[1], probe.args[2], probe.args[3],
                             probe.args[4]))

\* Matchers and window attributes for single calls of matches.
ClassPatterns == <<None, Some(<<"k","i","t","t","y">>), Some(<<"i","t">>)>>
TitlePatterns == <<None, Some(<<"G","I","M","P">>)>>
RolePatterns == <<None, Some(<<"b","r">>)>>
ProcessPatterns == <<None, Some(<<"m","o","n","t","a","u","k">>)>>
TypePatterns == <<None, Some(<<"d","i","a","l","o","g">>), Some(<<"D","I","A","L","O","G">>), Some(<<"d","i","a">>)>>
ClassValues == {<<"k","i","t","t","y">>, <<"a","l","a","c","r","i","t","t","y">>, <<"K","i","t","t","y">>}
TitleValues == {<<"G","I","M","P"," ","2",".","1","0">>, <<"g","i","m","p">>}
RoleValues == {<<"b","r","o","w","s","e","r">>, <<>>}
ProcessValues == {<<"m","o","n","t","a","u","k">>, <<"h","t","o","p">>, <<>>}
TypeValues == {<<"d","i","a","l","o","g">>, <<"D","I","A","L","O","G">>, <<"n","o","r","m","a","l">>}

RuleMatching(class, title, role, process, window_type) ==
    Unwrap(CompileRule(RuleWith([class |-> class, title |-> title, role |-> role,
                                 process |-> process, window_type |-> window_type,
                                 workspace |-> Some(1)])))

InitMatches ==
    \E c \in 1..Len(ClassPatterns), t \in 1..Len(TitlePatterns),
       r \in 1..Len(RolePatterns), p \in 1..Len(ProcessPatterns),
       w \in 1..Len(TypePatterns) :
        \E class \in ClassValues, title \in TitleValues, role \in RoleValues,
           process \in ProcessValues, window_type \in TypeValues :
            probe = Call("matches",
                         <<RuleMatching(ClassPatterns[c], TitlePatterns[t],
                                        RolePatterns[r], ProcessPatterns[p],
                                        TypePatterns[w]),
                           class, title, role, process, window_type>>)

CallMatches ==
    /\ Calling("matches")
    /\ Return(matches(probe.args[1], probe.args[2], probe.args[3], probe.args[4],
                      probe.args[5], probe.args[6]))

\* Monitors, monitor lists, window geometries and monitor targets for
\* single calls of the resolvers.
Monitor(name, x, y, width, height) ==
    [name |-> name, x |-> x, y |-> y, width |-> width, height |-> height]
MonitorLists ==
    << monitors,
       <<monitors[2], monitors[1]>>,
       <<monitors[1]>>,
       <<monitors[1], monitors[2], Monitor(<<"Z">>, 0, 1080, 1600, 1440)>>,
       <<monitors[2], Monitor(<<"X">>, 0, 1080, 1600, 1440), monitors[1]>> >>
Geometries ==
    << None, Some(<<100, 100, 800, 600>>), Some(<<2000, 50, 640, 480>>),
       Some(<<1520, 0, 800, 600>>), Some(<<9000, 9000, 10, 10>>),
       Some(<<-50, -50, 61, 61>>), Some(<<0, 1080, 3, 3>>) >>
MonitorTargets ==
    << None,
       Some([kind |-> "Index", idx |-> 0]), Some([kind |-> "Index", idx |-> 1]),
       Some([kind |-> "Index", idx |-> 2]), Some([kind |-> "Index", idx |-> 5]),
       Some([kind |-> "Name", name |-> <<"X">>]), Some([kind |-> "Name", name |-> <<"Y">>]),
       Some([kind |-> "Name", name |-> <<"Q">>]), Some([kind |-> "Name", name |-> <<"x">>]) >>

InitResolveMonitor ==
    \E m \in 1..Len(MonitorLists), g \in 1..Len(Geometries),
       t \in 1..Len(MonitorTargets) :
        probe = Call("resolve_monitor", <<MonitorLists[m], Geometries[g], MonitorTargets[t]>>)

CallResolveMonitor ==
    /\ Calling("resolve_monitor")
    /\ Return(ResolveMonitorIn(probe.args[1], probe.args[2], probe.args[3]))

WindowSizes ==
    << None, Some(<<0, 0>>), Some(<<800, 600>>), Some(<<801, 601>>),
       Some(<<3001, 2001>>) >>
PositionTargets ==
    << [kind |-> "Named", anchor |-> "Center"],
       [kind |-> "Named", anchor |-> "TopLeft"],
       [kind |-> "Named", anchor |-> "TopRight"],
       [kind |-> "Named", anchor |-> "BottomLeft"],
       [kind |-> "Named", anchor |-> "BottomRight"],
       [kind |-> "Named", anchor |-> "Left"],
       [kind |-> "Named", anchor |-> "Right"],
       [kind |-> "Named", anchor |-> "Top"],
       [kind |-> "Named", anchor |-> "Bottom"],
       [kind |-> "Absolute", x |-> -10, y |-> 20],
       [kind |-> "Flexible", x |-> [kind |-> "Percent", v |-> 50],
                             y |-> [kind |-> "Pixels", v |-> -5]] >>

\* Dimensions a flexible size or position can carry after parse_dimension.
Dimensions ==
    {[kind |-> "Pixels", v |-> v] : v \in {-5, 0, 1, 640}}
    \cup {[kind |-> "Percent", v |-> v] : v \in {-35} \cup 0..MaxPercent}
Heights ==
    {[kind |-> "Pixels", v |-> 0], [kind |-> "Percent", v |-> 35],
     [kind |-> "Percent", v |-> 100]}

InitResolvePosition ==
    \/ \E p \in 1..Len(PositionTargets), m \in 1..3, w \in 1..Len(WindowSizes) :
          probe = Call("resolve_position",
                       <<PositionTargets[p], MonitorLists[4][m], WindowSizes[w]>>)
    \/ \E x \in Dimensions, y \in Heights, m \in 1..3 :
          probe = Call("resolve_position",
                       <<[kind |-> "Flexible", x |-> x, y |-> y],
                         MonitorLists[4][m], WindowSizes[3]>>)
    \/ \E form \in 1..2, m \in 1..3, w \in {1, 3} :
          LET Written ==
                << [kind |-> "Absolute", coords |-> <<100, 200>>],
                   [kind |-> "Flexible",
                    parts |-> << <<"1","0","0">>, <<"2","0","0">> >>] >>
          IN probe = Call("resolve_position",
                          <<Unwrap(compile_position(Written[form])),
                            MonitorLists[4][m], WindowSizes[w]>>)

CallResolvePosition ==
    /\ Calling("resolve_position")
    /\ Return(resolve_position(probe.args[1], probe.args[2], probe.args[3]))

\* Mutant: no monitor is made up when no output is active.
query_monitors_no_fallback(resources_ok, outputs, root) ==
    LET active == SelectSeq(outputs, LAMBDA o : o.status = "active")
    IN IF ~resources_ok THEN None
       ELSE Some([i \in 1..Len(active) |-> active[i].mon])

\* query_monitors on a server whose screen resources list the given
\* outputs: None when the resources cannot be read; else the rectangle of
\* every output whose info can be read, that is connected with a CRTC, and
\* whose CRTC info can be read, in order; when there is none, one monitor
\* "default" of the root window's size.
query_monitors(resources_ok, outputs, root) ==
    LET active == SelectSeq(outputs, LAMBDA o : o.status = "active")
    IN IF ~resources_ok THEN None
       ELSE IF Len(active) = 0
            THEN Some(<<[name |-> <<"d","e","f","a","u","l","t">>, x |-> 0, y |-> 0,
                         width |-> root[1], height |-> root[2]]>>)
            ELSE Some([i \in 1..Len(active) |-> active[i].mon])

\* Up to three outputs, each with unreadable info, disconnected or without
\* CRTC, with unreadable CRTC info, or active.
InitQueryMonitors ==
    \E n \in 0..3, ok \in BOOLEAN, root \in {<<1920, 1080>>, <<3200, 1080>>} :
    \E st \in [1..n -> {"info_failed", "disconnected", "crtc_failed", "active"}] :
        probe = Call("query_monitors",
                     <<ok, [i \in 1..n |-> [status |-> st[i],
                                            mon |-> MonitorLists[4][i]]], root>>)

CallQueryMonitors ==
    /\ Calling("query_monitors")
    /\ Return(query_monitors(probe.args[1], probe.args[2], probe.args[3]))

InitResolveSize ==
    \E m \in 1..3 :
        \/ \E d \in {<<640, 480>>, <<0, 0>>} :
              probe = Call("resolve_size",
                           <<[kind |-> "Absolute", w |-> d[1], h |-> d[2]],
                             MonitorLists[4][m]>>)
        \/ \E w \in Dimensions, h \in Heights :
              probe = Call("resolve_size",
                           <<[kind |-> "Flexible", w |-> w, h |-> h],
                             MonitorLists[4][m]>>)

CallResolveSize ==
    /\ Calling("resolve_size")
    /\ Return(resolve_size(probe.args[1], probe.args[2]))

FnInit ==
    /\ pc = "call"
    /\ Idle
    /\ \/ InitApplyRule
       \/ InitApplyActions
       \/ InitHandleNewWindow
       \/ InitMatches
       \/ InitProcessEvents
       \/ InitQueryMonitors
       \/ InitResolveMonitor
       \/ InitResolvePosition
       \/ InitResolveSize

FnNext ==
    \/ CallApplyRule
    \/ CallHandleNewWindow
    \/ CallMatches
    \/ CallProcessEvents
    \/ CallQueryMonitors
    \/ CallResolveMonitor
    \/ CallResolvePosition
    \/ CallResolveSize

FnSpec == FnInit /\ [][FnNext]_vars

\* ============================================================ properties
Count(w, l) == Cardinality({i \in 1..Len(l) : l[i].call.window = w})
WindowsOf(l) == [i \in 1..Len(l) |-> l[i].call.window]
IsPrefix(a, b) == Len(a) <= Len(b) /\ SubSeq(b, 1, Len(a)) = a
Added(old, new) == SubSeq(new, Len(old) + 1, Len(new))
Runs == <<Backend, live>>

\* The first process_events call has drained pending_startup.
StartupDone ==
    \/ pc \in {"client_list", "poll", "check_signal", "check_inotify", "check_x11",
               "shutdown", "poll_failed", "returned"}
    \/ pc = "process_events" /\ waited

\* C1: every window handle is passed to handle_new_window at most once: by
\* the startup branch if it was in the initial client list, otherwise at
\* most once by the new-window branch.
C1_AtMostOnce ==
    \A r \in 1..2 : \A w \in Windows :
        /\ Count(w, Runs[r].log) <= 1
        /\ \A i \in 1..Len(Runs[r].log) :
              Runs[r].log[i].call.window = w =>
                 Runs[r].log[i].via = IF Contains(initial, w) THEN "startup" ELSE "new"

\* A window of the initial list and a later one have both been dispatched,
\* once each, and the later one has been seen in a second client list since.
C1_Witness ==
    /\ pc = "poll" /\ budget = 0
    /\ \E w1, w2 \in Windows :
          /\ Contains(initial, w1) /\ ~Contains(initial, w2)
          /\ Count(w1, log) = 1 /\ Count(w2, log) = 1
          /\ Count(w1, live.log) = 1 /\ Count(w2, live.log) = 1
          /\ Contains(known_clients, w2)

\* C2: the first process_events call, made before the first poll, dispatches
\* every window of the initial client list exactly once, in list order, and
\* leaves it in handled; pending_startup is empty from then on, and nothing
\* is dispatched and no poll is made before that call.
C2_StartupDrain ==
    \A r \in 1..2 :
        IF StartupDone
        THEN /\ Runs[r].pending_startup = <<>>
             /\ IsPrefix(initial, Runs[r].handled)
             /\ IsPrefix(initial, WindowsOf(Runs[r].log))
             /\ \A i \in 1..Len(initial) : Runs[r].log[i].via = "startup"
             /\ \A w \in Range(initial) : Count(w, Runs[r].log) = 1
        ELSE /\ Runs[r].log = <<>>
             /\ Runs[r].pending_startup = initial
             /\ ~waited

\* The daemon has waited in poll at least once and made a later
\* process_events call; the two startup windows were dispatched.
C2_Witness ==
    /\ waited /\ pc = "client_list" /\ Len(initial) = 2
    /\ pending_startup = <<>> /\ IsPrefix(initial, handled)

\* C3: a pass that drained a client-list PropertyNotify fetches the list,
\* dispatches exactly the fetched windows that are in neither known_clients
\* nor handled (in list order), appends them to handled, and sets
\* known_clients to the fetched list.
C3_DiffStep ==
    (pc = "client_list" /\ pc' = "poll" /\ client_list_changed) =>
        LET new == SelectSeq(fetched', LAMBDA w : ~Contains(known_clients, w)
                                                  /\ ~Contains(handled, w))
        IN /\ fetched' \in {clients, <<>>}
           /\ IsPrefix(log, log')
           /\ WindowsOf(Added(log, log')) = new
           /\ handled' = handled \o new
           /\ known_clients' = fetched'
           /\ live'.known_clients = fetched'
           /\ live'.handled = live.handled \o new

C3_Diff == [][C3_DiffStep]_vars

\* After a diff: one fetched window was new and was dispatched, another was
\* skipped as known, and a handle that disappeared left known_clients.
C3_Witness ==
    /\ pc = "poll" /\ Len(fetched) = 1
    /\ known_clients = fetched
    /\ log # <<>> /\ log[Len(log)].via = "new"
    /\ log[Len(log)].call.window = fetched[1]
    /\ \E w \in Range(handled) : ~Contains(known_clients, w)

\* C4: handled only grows by appending, and a handle already in handled is
\* never dispatched again, also after it left the client list and came back.
C4_Step ==
    /\ IsPrefix(handled, handled')
    /\ IsPrefix(live.handled, live'.handled)
    /\ \A w \in Range(handled) : Count(w, log') = Count(w, log)
    /\ \A w \in gone : Contains(handled', w)

C4_AppendOnly == [][C4_Step]_vars

\* A handled window left the client list, is back in it, has been diffed
\* again, and was dispatched once only.
C4_Witness ==
    \E w \in gone :
        /\ pc = "poll"
        /\ Contains(known_clients, w) /\ Contains(handled, w)
        /\ Count(w, log) = 1

\* The inotify branch of this iteration is about to run.
ReloadDue == pc = "check_inotify" /\ inotify_fd >= 0 /\ "inotify" \in revents
RulesUsedFrom(l, from) == {l[i].call.rules : i \in (from + 1)..Len(l)}

\* C5: a reload whose load or compile fails leaves the active rule set as
\* it was and goes on to the X11 check of the same iteration; every window
\* dispatched after it, until the next reload, is evaluated against the
\* rule set that was active before it.
C5_Step ==
    /\ (ReloadDue /\ IsNone(load_rules(ConfigFiles[config]))) =>
           /\ rules' = rules
           /\ pc' = "check_x11"
           /\ reload'.outcome = "failed" /\ reload'.before = rules
    /\ reload'.outcome = "failed" =>
           /\ rules' = reload'.before
           /\ RulesUsedFrom(log', reload'.at) \subseteq {reload'.before}
           /\ RulesUsedFrom(live'.log, reload'.at) \subseteq {reload'.before}

C5_FailedReload == [][C5_Step]_vars

\* A rejected file was written, the reload failed, and a window that came
\* afterwards was matched by a rule of the previous set.
C5_Witness ==
    /\ reload.outcome = "failed" /\ pc = "poll"
    /\ Len(log) > reload.at
    /\ log[Len(log)].call.rules = reload.before
    /\ log[Len(log)].call.matched # <<>>

\* C6: a successful reload makes the loaded rule set the active one, every
\* dispatch after it, until the next reload, is evaluated against the
\* loaded set alone, and every dispatch is evaluated against the whole rule
\* set active at that moment.
C6_Step ==
    /\ (ReloadDue /\ IsSome(load_rules(ConfigFiles[config]))) =>
           /\ rules' = Unwrap(load_rules(ConfigFiles[config]))
           /\ reload'.outcome = "ok" /\ reload'.loaded = rules'
    /\ reload'.outcome = "ok" =>
           /\ rules' = reload'.loaded
           /\ RulesUsedFrom(log', reload'.at) \subseteq {reload'.loaded}
           /\ RulesUsedFrom(live'.log, reload'.at) \subseteq {reload'.loaded}
    /\ RulesUsedFrom(log', Len(log)) \cup RulesUsedFrom(live'.log, Len(live.log))
           \subseteq {rules}

C6_AtomicSwap == [][C6_Step]_vars

\* A window was dispatched under the old set, a different set was loaded,
\* and a later window was matched under the new set.
C6_Witness ==
    /\ reload.outcome = "ok" /\ reload.loaded # reload.before
    /\ reload.at >= 1 /\ Len(log) > reload.at
    /\ log[reload.at].call.rules = reload.before
    /\ log[reload.at].call.matched # <<>>
    /\ log[Len(log)].call.rules = reload.loaded
    /\ log[Len(log)].call.matched # <<>>

\* C7: when poll reports the signal descriptor readable, the iteration
\* drains it and leaves the loop: no reload, no process_events call, the
\* inotify queue and the X11 socket are left unread; afterwards run only
\* returns, with the rule set and the dispatches as they were.
C7_Step ==
    /\ (pc = "check_signal" /\ signal_fd >= 0 /\ "signal" \in revents) =>
           /\ pc' = "shutdown"
           /\ ~sig_pending'
           /\ rules' = rules /\ reload' = reload
           /\ log' = log /\ live' = live
           /\ ino_pending' = ino_pending /\ sock' = sock /\ buf' = buf
    /\ pc \in {"shutdown", "returned"} =>
           /\ pc' = "returned"
           /\ rules' = rules /\ log' = log /\ live' = live

C7_Shutdown == [][C7_Step]_vars

\* The loop was left on a wake-up that also reported another source: a
\* configuration write that would have changed the rules, or a client list
\* holding a window never dispatched.
C7_Witness ==
    /\ pc = "returned" /\ "signal" \in revents
    /\ \/ /\ "inotify" \in revents /\ ino_pending
          /\ IsSome(load_rules(ConfigFiles[config]))
          /\ Unwrap(load_rules(ConfigFiles[config])) # rules
       \/ /\ "x11" \in revents /\ Contains(sock, ClientListEvent)
          /\ \E w \in Range(clients) : ~Contains(handled, w)

Calls(l) == {l[i].call : i \in 1..Len(l)}
Writes(call) == Flatten(call.requests)

\* C8: with --dry-run no handle_new_window call issues a request to the
\* server, whatever events, client lists and reloads came before; each
\* matching rule gets its log_actions lines instead.
C8_DryRunNoWrites ==
    dry_run =>
        \A c \in Calls(log) :
            /\ Writes(c) = <<>>
            /\ Len(c.dry) = Len(c.matched)
            /\ \A k \in 1..Len(c.matched) : c.dry[k] = log_actions(c.rules[c.matched[k]])

\* After a reload, a new window matched a rule that makes the live daemon
\* write to the server; the dry run logged it.
C8_Witness ==
    /\ dry_run /\ reload.outcome = "ok" /\ Len(log) > reload.at
    /\ log[Len(log)].via = "new"
    /\ log[Len(log)].call.matched # <<>>
    /\ Flatten(log[Len(log)].call.dry) # <<>>
    /\ Writes(live.log[Len(log)].call) # <<>>

\* C9: on the same events, client lists and rule sets, the dry run and the
\* live run make the same handle_new_window calls in the same order, each
\* with the same rule set and the same matching rules in the same order,
\* and hold equal known_clients, handled and pending_startup; only the live
\* run issues requests and only the dry run prints [DRY] lines.
C9_SameDispatch ==
    /\ Len(log) = Len(live.log)
    /\ \A i \in 1..Len(log) :
          /\ log[i].via = live.log[i].via
          /\ log[i].call.window = live.log[i].call.window
          /\ log[i].call.rules = live.log[i].call.rules
          /\ log[i].call.matched = live.log[i].call.matched
          /\ Writes(log[i].call) = <<>>
          /\ Flatten(live.log[i].call.dry) = <<>>
          /\ Len(live.log[i].call.requests) = Len(log[i].call.dry)
    /\ known_clients = live.known_clients
    /\ handled = live.handled
    /\ pending_startup = live.pending_startup

\* Both runs dispatched a startup window and a later one; one of them
\* matched two rules, and the live run wrote to the server for it.
C9_Witness ==
    /\ pc = "poll" /\ Len(log) >= 2
    /\ log[1].via = "startup" /\ log[Len(log)].via = "new"
    /\ \E i \in 1..Len(log) :
          /\ Len(log[i].call.matched) >= 2
          /\ Writes(live.log[i].call) # <<>>

\* The pair of plain pixel numbers a [DRY] position or size line prints, if
\* it prints one: the Debug form of an anchor or of a percentage is none.
Shown(target) ==
    LET t == Unwrap(target)
    IN CASE t.kind = "Absolute" ->
               IF "x" \in DOMAIN t THEN <<t.x, t.y>> ELSE <<t.w, t.h>>
         [] t.kind = "Named" -> <<>>
         [] t.kind = "Flexible" ->
               IF "x" \in DOMAIN t
               THEN IF t.x.kind = "Pixels" /\ t.y.kind = "Pixels"
                    THEN <<t.x.v, t.y.v>> ELSE <<>>
               ELSE IF t.w.kind = "Pixels" /\ t.h.kind = "Pixels"
                    THEN <<t.w.v, t.h.v>> ELSE <<>>

DryLines(c, k, what) == SelectSeq(c.dry[k], LAMBDA l : l.what = what)
LiveWrites(c, k, field) ==
    SelectSeq(c.requests[k], LAMBDA q : q.req = "configure_window" /\ q.props[1] = field)

ActionOf(q) ==
    CASE q.req = "configure_window" -> IF q.props[1] = "width" THEN "size" ELSE "position"
      [] q.req = "change_property" ->
            IF q.atom = "_MOTIF_WM_HINTS" THEN "decorate" ELSE "opacity"
      [] q.atom = "_NET_WM_DESKTOP" -> IF q.props = <<>> THEN "workspace" ELSE "pin"
      [] q.atom = "WM_CHANGE_STATE" -> "minimize"
      [] q.atom = "_NET_ACTIVE_WINDOW" -> "focus"
      [] q.atom = "_NET_WM_STATE" ->
            CASE q.props[1] = "_NET_WM_STATE_MAXIMIZED_VERT" -> "maximize"
              [] q.props[1] = "_NET_WM_STATE_FULLSCREEN" -> "fullscreen"
              [] q.props[1] = "_NET_WM_STATE_STICKY" -> "pin"
              [] q.props[1] = "_NET_WM_STATE_SHADED" -> "shade"
              [] q.props[1] = "_NET_WM_STATE_ABOVE" -> "above"
              [] q.props[1] = "_NET_WM_STATE_BELOW" -> "below"
ActionsOf(reqs) == [i \in 1..Len(reqs) |-> ActionOf(reqs[i])]

\* The order of C11.
ActionOrder ==
    <<"size", "position", "workspace", "maximize", "fullscreen", "pin", "minimize",
      "shade", "above", "below", "decorate", "focus", "opacity">>
OrderIndex(a) == CHOOSE i \in 1..Len(ActionOrder) : ActionOrder[i] = a

\* The actions a rule asks for: a value for size, position, workspace,
\* opacity and decorate, true for the other toggles.
Asked(rule) ==
    {a \in ActionFields :
        IF a \in Toggles \ {"decorate"} THEN IsTrue(rule[a]) ELSE IsSome(rule[a])}

\* C11: the requests of one apply_rule call come in the order size,
\* position, workspace, maximize, fullscreen, pin, minimize, shade, above,
\* below, decorate, focus, opacity: exactly the actions the rule asks for,
\* each once (pin as its two requests together), none out of order.
C11_ActionOrder ==
    Returned("apply_rule") =>
        LET acts == ActionsOf(probe.result[1])
        IN /\ Range(acts) = Asked(probe.args[2])
           /\ \A i \in 1..(Len(acts) - 1) :
                 \/ OrderIndex(acts[i]) < OrderIndex(acts[i + 1])
                 \/ acts[i] = "pin" /\ acts[i + 1] = "pin"
           /\ Len(acts) = Cardinality(Range(acts))
                              + (IF "pin" \in Range(acts) THEN 1 ELSE 0)

\* A rule asking for all thirteen actions was applied.
C11_Witness ==
    /\ Returned("apply_rule")
    /\ Asked(probe.args[2]) = ActionFields
    /\ Len(probe.result[1]) = 14

\* The rule of the end-to-end scenario: monitor, workspace 2, position
\* [0,0], size [1920,1080], fullscreen, focus, decorate = false, above,
\* opacity 0.95.
ScenarioRule ==
    RuleSetting({"workspace", "position", "size", "fullscreen", "focus", "decorate",
                 "above", "opacity"}, {"decorate"})

\* C12 as stated: for the scenario rule the requests are resize, move,
\* desktop assignment, fullscreen, decoration-disable, above, focus,
\* opacity, in this order.
C12_ScenarioOrderStated ==
    (Returned("apply_rule") /\ probe.args[2] = ScenarioRule) =>
        ActionsOf(probe.result[1]) =
            <<"size", "position", "workspace", "fullscreen", "decorate", "above",
              "focus", "opacity">>

\* C12, amended: for the scenario rule the requests are resize to
\* 1920x1080, move to (0,0), desktop assignment to workspace 2,
\* fullscreen-state request, above-state request, decoration-disable write,
\* focus request, opacity write, in this order: the above-state request
\* precedes the decoration write.
C12_ScenarioOrder ==
    (Returned("apply_rule") /\ probe.args[2] = ScenarioRule) =>
        LET reqs == probe.result[1]
        IN /\ ActionsOf(reqs) =
                 <<"size", "position", "workspace", "fullscreen", "above", "decorate",
                   "focus", "opacity">>
           /\ reqs[1].data = <<1920, 1080>>
           /\ reqs[2].data = <<0, 0>>
           /\ reqs[3].data[1] = 2
           /\ reqs[4].data[1] = 1 /\ reqs[5].data[1] = 1
           /\ reqs[6] = set_decoration(probe.args[1], FALSE)
           /\ \A i \in 1..Len(reqs) : reqs[i].window = probe.args[1]

\* The scenario rule was applied to the window.
C12_Witness ==
    /\ Returned("apply_rule") /\ probe.args[2] = ScenarioRule
    /\ Len(probe.result[1]) = 8

\* The rules of a set that match a window, by index.
Matching(window, rs) ==
    {i \in 1..Len(rs) :
        matches(rs[i], get_class(window), get_title(window), get_role(window),
                get_process_name(window), get_window_type(window))}
\* Where in a sequence of requests the moves are.
Moves(reqs) == {i \in 1..Len(reqs) : ActionOf(reqs[i]) = "position"}

\* C13: handle_new_window applies the matching rules of the rule set in
\* rule-set order, each with all its requests before the next one starts,
\* and sends nothing for a rule that does not match: the requests of the
\* call are the apply_rule sequences of the matching rules, one after the
\* other, so a later rule's move comes after an earlier rule's.
C13_RuleOrder ==
    (Returned("handle_new_window") /\ ~probe.args[3]) =>
        LET window == probe.args[1]
            rs == probe.args[2]
            call == probe.result[1]
            hits == call.matched
        IN /\ Range(hits) = Matching(window, rs)
           /\ \A k \in 1..(Len(hits) - 1) : hits[k] < hits[k + 1]
           /\ Len(call.requests) = Len(hits)
           /\ \A k \in 1..Len(hits) :
                 /\ ActionsOf(call.requests[k]) =
                        SelectSeq(ActionsOf(call.requests[k]),
                                  LAMBDA a : a \in Asked(rs[hits[k]]))
                 /\ Range(ActionsOf(call.requests[k])) = Asked(rs[hits[k]])
                 /\ \A i \in 1..Len(call.requests[k]) :
                       call.requests[k][i].window = window
           /\ Len(Writes(call)) = Len(Flatten([k \in 1..Len(hits) |->
                                                 apply_rule(window, rs[hits[k]])]))
           /\ (Matching(window, rs) = {}) => Writes(call) = <<>>

\* Two rules that move the window to different places, with a rule that
\* does not match between them, were applied to one window: the later
\* rule's move is the last.
C13_Witness ==
    /\ Returned("handle_new_window") /\ ~probe.args[3]
    /\ Len(probe.args[2]) = 3
    /\ probe.result[1].matched = <<1, 3>>
    /\ Cardinality(Moves(Writes(probe.result[1]))) = 2
    /\ \E i, j \in Moves(Writes(probe.result[1])) :
          /\ i < j
          /\ Writes(probe.result[1])[i].data # Writes(probe.result[1])[j].data
          /\ Writes(probe.result[1])[j] \in Range(probe.result[1].requests[2])

\* The matchers of a rule and, for a call of matches, the input each one
\* is tested on.
Matchers == <<"class", "title", "role", "process", "window_type">>
Present(rule) == {i \in 1..5 : IsSome(rule[Matchers[i]])}
\* Whether matcher i of the rule accepts the input given for it.
Accepts(rule, i, input) ==
    IF Matchers[i] = "window_type"
    THEN EqIgnoreAsciiCase(Unwrap(rule.window_type), input)
    ELSE IsMatch(Unwrap(rule[Matchers[i]]), input)

\* C14: matches is true exactly when every matcher present in the rule
\* accepts its input: an absent matcher accepts everything, and with two
\* matchers present both must accept.
C14_Conjunction ==
    Returned("matches") =>
        LET rule == probe.args[1]
        IN probe.result[1] =
              (\A i \in 1..5 : i \in Present(rule) => Accepts(rule, i, probe.args[i + 1]))

\* A rule with a class and a process matcher and nothing else was tried on
\* a window whose class matches and whose process does not: no match.
C14_Witness ==
    /\ Returned("matches")
    /\ Present(probe.args[1]) = {1, 4}
    /\ Accepts(probe.args[1], 1, probe.args[2])
    /\ ~Accepts(probe.args[1], 4, probe.args[5])
    /\ probe.result[1] = FALSE

\* The text with its ASCII letters in lower case.
Lowered(text) == [i \in 1..Len(text) |-> ToAsciiLower(text[i])]
\* The pattern occurs in the text as written, at some offset.
Occurs(pat, text) ==
    \E off \in 0..Len(text) :
        /\ off + Len(pat) <= Len(text)
        /\ \A i \in 1..Len(pat) : text[off + i] = pat[i]

AllMatchable(rs) == \A i \in 1..Len(rs) : HasMatcher(rs[i])
\* Some rule of the file has no matcher.
Matcherless(file) == \E i \in 1..Len(file.rule) : ~HasMatcher(file.rule[i])

\* C16: every rule of the active rule set, and of every rule set a window
\* was dispatched against, has at least one matcher; a file with a rule
\* that has none, beside rules that have one, fails to load at startup and
\* on reload, and the daemon then runs with the rules it had.
C16_EveryRuleHasMatcher ==
    /\ AllMatchable(rules)
    /\ \A n \in 1..Len(log) : AllMatchable(log[n].call.rules)
    /\ \A n \in 1..Len(live.log) : AllMatchable(live.log[n].call.rules)
    /\ (reload.outcome # "none" /\ Matcherless(ConfigFiles[reload.file])) =>
          reload.outcome = "failed" /\ rules = reload.before
    /\ (pc = "process_events" /\ ~waited) => ~Matcherless(ConfigFiles[config])

\* The file was rewritten with a matcherless rule after a rule that has a
\* matcher; the reload failed and a window was dispatched afterwards.
C16_Witness ==
    /\ reload.outcome = "failed"
    /\ Matcherless(ConfigFiles[reload.file]) /\ Len(ConfigFiles[reload.file].rule) = 2
    /\ rules # <<>> /\ Len(log) > reload.at

\* The positions in a monitor list a target names: the index it gives, or
\* the monitors of the name it gives.
Targeted(mons, t) ==
    IF IsNone(t) THEN {}
    ELSE IF Unwrap(t).kind = "Index"
         THEN {i \in 1..Len(mons) : i = Unwrap(t).idx + 1}
         ELSE {i \in 1..Len(mons) : mons[i].name = Unwrap(t).name}
\* The centre of a window geometry <<x, y, width, height>> lies in the
\* rectangle of the monitor.
CentreIn(geo, mon) ==
    LET cx == geo[1] + (geo[3] \div 2)
        cy == geo[2] + (geo[4] \div 2)
    IN /\ mon.x <= cx /\ cx < mon.x + mon.width
       /\ mon.y <= cy /\ cy < mon.y + mon.height
Holding(mons, geo) ==
    IF IsNone(geo) THEN {} ELSE {i \in 1..Len(mons) : CentreIn(Unwrap(geo), mons[i])}

\* C17: with an index target inside the monitor list the result is the
\* monitor at that index, and with a name target some monitor bears the
\* result is the first monitor of that name, wherever the window is.
C17_ExplicitTarget ==
    (Returned("resolve_monitor")
     /\ Targeted(probe.args[1], probe.args[3]) # {}) =>
        probe.result[1] = probe.args[1][First(Targeted(probe.args[1], probe.args[3]))]

\* The target names one monitor while the window's centre lies in another.
C17_Witness ==
    /\ Returned("resolve_monitor")
    /\ Targeted(probe.args[1], probe.args[3]) # {}
    /\ Holding(probe.args[1], probe.args[2]) # {}
    /\ Targeted(probe.args[1], probe.args[3]) \cap Holding(probe.args[1], probe.args[2]) = {}
    /\ Unwrap(probe.args[3]).kind = "Name"

\* C18: resolve_monitor always returns a monitor of the list; with a name
\* no monitor bears or an index past the list, the result is the first
\* monitor whose rectangle holds the window's centre, and the first
\* monitor of the list when the geometry cannot be read or no monitor
\* holds the centre.
C18_FallThrough ==
    Returned("resolve_monitor") =>
        LET mons == probe.args[1]
            held == Holding(mons, probe.args[2])
        IN /\ \E i \in 1..Len(mons) : probe.result[1] = mons[i]
           /\ (IsSome(probe.args[3]) /\ Targeted(mons, probe.args[3]) = {}) =>
                 probe.result[1] = IF held # {} THEN mons[First(held)] ELSE mons[1]

\* A name no monitor bears was given for a window whose centre lies in a
\* monitor that is not the first.
C18_Witness ==
    /\ Returned("resolve_monitor")
    /\ IsSome(probe.args[3]) /\ Unwrap(probe.args[3]).kind = "Name"
    /\ Targeted(probe.args[1], probe.args[3]) = {}
    /\ Holding(probe.args[1], probe.args[2]) # {}
    /\ 1 \notin Holding(probe.args[1], probe.args[2])

\* Half of a difference as integer division of the source language gives
\* it: rounded toward zero.
Half(d) == IF d >= 0 THEN d \div 2 ELSE 0 - ((0 - d) \div 2)
\* The named anchors by what they do on each axis.
AnchorX ==
    [Center |-> "mid", TopLeft |-> "near", TopRight |-> "far",
     BottomLeft |-> "near", BottomRight |-> "far", Left |-> "near",
     Right |-> "far", Top |-> "mid", Bottom |-> "mid"]
AnchorY ==
    [Center |-> "mid", TopLeft |-> "near", TopRight |-> "near",
     BottomLeft |-> "far", BottomRight |-> "far", Left |-> "mid",
     Right |-> "mid", Top |-> "near", Bottom |-> "far"]
Along(how, origin, extent, size) ==
    CASE how = "near" -> origin
      [] how = "far" -> origin + extent - size
      [] how = "mid" -> origin + Half(extent - size)
SizeOrZero(win_size) == IF IsSome(win_size) THEN Unwrap(win_size) ELSE <<0, 0>>

\* C19: a named position resolves, on each axis, to the monitor's origin,
\* to origin + extent - window extent, or to origin + (extent - window
\* extent) / 2, as the anchor says; on monitor 1920x1080 at the origin with
\* an 800x600 window, center is (560,240), top-left (0,0) and bottom-right
\* (1120,480).
C19_NamedPosition ==
    (Returned("resolve_position") /\ probe.args[1].kind = "Named") =>
        LET a == probe.args[1].anchor
            m == probe.args[2]
            sz == SizeOrZero(probe.args[3])
        IN /\ probe.result[1] = << Along(AnchorX[a], m.x, m.width, sz[1]),
                                   Along(AnchorY[a], m.y, m.height, sz[2]) >>
           /\ (m = monitors[1] /\ sz = <<800, 600>>) =>
                 /\ a = "Center" => probe.result[1] = <<560, 240>>
                 /\ a = "TopLeft" => probe.result[1] = <<0, 0>>
                 /\ a = "BottomRight" => probe.result[1] = <<1120, 480>>

\* A window wider than the monitor by an odd amount was centred on a
\* monitor away from the origin.
C19_Witness ==
    /\ Returned("resolve_position")
    /\ probe.args[1].kind = "Named" /\ probe.args[1].anchor = "Center"
    /\ probe.args[2].x > 0
    /\ probe.args[3] = Some(<<3001, 2001>>)
    /\ probe.result[1] = <<1060, -488>>

\* The pixel value of a dimension on an extent: the pixels themselves, or
\* the percentage of the extent with the fraction dropped.
PixelsOf(dim, extent) ==
    IF dim.kind = "Pixels" THEN dim.v
    ELSE IF dim.v >= 0 THEN (extent * dim.v) \div 100
    ELSE 0 - ((extent * (0 - dim.v)) \div 100)
AtLeastOne(v) == IF v >= 1 THEN v ELSE 1

\* C20: an Absolute size is returned verbatim; a Flexible size resolves on
\* each axis to max(1, v), v being the pixel value or the percentage of the
\* monitor's width/height truncated toward zero; (50%, 100%) on a
\* 1920x1080 monitor gives (960, 1080).
C20_SizeResolution ==
    Returned("resolve_size") =>
        LET sz == probe.args[1]
            m == probe.args[2]
        IN IF sz.kind = "Absolute" THEN probe.result[1] = <<sz.w, sz.h>>
           ELSE probe.result[1] = << AtLeastOne(PixelsOf(sz.w, m.width)),
                                     AtLeastOne(PixelsOf(sz.h, m.height)) >>

\* The requests of an apply_rule call that write the opacity property.
OpacityWrites == SelectSeq(probe.result[1], LAMBDA q : q.atom = "_NET_WM_WINDOW_OPACITY")
\* round(c * 0xFFFFFFFF) for c = hundredths / 100 in [0,1], as the pair
\* <<high 16 bits, low 16 bits>>: 0xFFFFFFFF = 65535 * 65536 + 65535.
RoundedOpacity(hundredths) ==
    LET a == hundredths * 65535
        high == a \div 100
        low == ((a % 100) * 65536 + a + 50) \div 100
    IN <<high + (low \div 65536), low % 65536>>

\* C21: the opacity written for a rule with opacity v is
\* round(c * 0xFFFFFFFF), c being v clamped to [0,1]: 0 for v below 0 and
\* 0xFFFFFFFF for v above 1.
C21_OpacityRounded ==
    (Returned("apply_rule") /\ IsSome(probe.args[2].opacity)) =>
        LET v == Unwrap(probe.args[2].opacity)
            c == IF v < 0 THEN 0 ELSE IF v > 100 THEN 100 ELSE v
        IN /\ Len(OpacityWrites) = 1
           /\ OpacityWrites[1].data = RoundedOpacity(c)

\* The daemon has entered event_loop and has not left it.
Running == pc \in {"process_events", "client_list", "poll", "check_signal",
                   "check_inotify", "check_x11"}

\* C22: a window that was not in the client list at startup, and from some
\* point on is in it for good while the daemon keeps running, is
\* eventually in handled.
C22_EventuallyDispatched ==
    \A w \in Windows :
        <>[](Running /\ Contains(clients, w) /\ ~Contains(initial, w))
            => <>Contains(handled, w)

\* No property of the window can be read.
Unreadable(w) == \A f \in DOMAIN WindowProps(w) : IsNone(WindowProps(w)[f])
\* The rules whose matchers all accept the empty string, or "normal" for
\* the window type.
EmptyHits(rs) ==
    {i \in 1..Len(rs) :
        \A m \in Present(rs[i]) :
            Accepts(rs[i], m, IF Matchers[m] = "window_type"
                              THEN <<"n","o","r","m","a","l">> ELSE <<>>)}

\* C23: a new window none of whose properties can be read has empty class,
\* title, role and process and type "normal", is dispatched once against
\* the whole rule set, matching the rules that accept those values, and is
\* in handled after the pass.
C23_UnreadableWindow ==
    Returned("process_events") =>
        LET b == probe.args[1]
            rs == probe.args[3]
            after == probe.result[1]
        IN \A w \in Range(probe.args[2]) :
             (Unreadable(w) /\ ~Contains(b.known_clients, w) /\ ~Contains(b.handled, w)) =>
                /\ get_class(w) = <<>> /\ get_title(w) = <<>> /\ get_role(w) = <<>>
                /\ get_process_name(w) = <<>>
                /\ get_window_type(w) = <<"n","o","r","m","a","l">>
                /\ Contains(after.handled, w)
                /\ Cardinality({i \in 1..Len(after.log) : after.log[i].call.window = w}) = 1
                /\ \A i \in 1..Len(after.log) :
                      after.log[i].call.window = w =>
                         /\ after.log[i].call.rules = rs
                         /\ Range(after.log[i].call.matched) = EmptyHits(rs)

\* A live pass met an unreadable new window after a readable one, with a
\* rule set of which one rule matches the unreadable window.
C23_Witness ==
    /\ Returned("process_events") /\ ~probe.args[4]
    /\ probe.args[2] = <<1, 3>> /\ probe.args[1].handled = <<>>
    /\ probe.args[1].known_clients = <<>>
    /\ probe.result[1].handled = <<1, 3>>
    /\ Cardinality(EmptyHits(probe.args[3])) = 1
    /\ Len(probe.result[1].log[2].call.requests[1]) > 0

\* The watch could not be established and run has entered event_loop.
NoWatch ==
    inotify_fd = -1 /\ (Running \/ pc \in {"shutdown", "poll_failed", "returned"})

\* C24: without a watch the daemon runs as with one, except that its rule
\* set stays the one loaded at startup: a pass of process_events
\* dispatches the startup windows and the new windows of the client list,
\* a signal read by poll ends the loop, and no step changes rules.
C24_Step ==
    NoWatch =>
        /\ rules' = rules /\ inotify_fd' = -1
        /\ rules = Unwrap(load_rules(ConfigFiles[reload.file]))
        /\ pc = "process_events" =>
              /\ handled' = handled \o pending_startup
              /\ WindowsOf(Added(log, log')) = pending_startup
        /\ (pc = "client_list" /\ client_list_changed) =>
              LET new == SelectSeq(fetched', LAMBDA w : ~Contains(known_clients, w)
                                                        /\ ~Contains(handled, w))
              IN /\ handled' = handled \o new
                 /\ WindowsOf(Added(log, log')) = new
        /\ \A i \in 1..Len(log') : log'[i].call.rules = rules
        /\ (pc = "check_signal" /\ signal_fd >= 0 /\ "signal" \in revents) =>
              pc' = "shutdown"

C24_NoWatchNoReload == [][C24_Step]_vars

\* Without a watch the file has been rewritten with another valid rule set;
\* a startup window and a new window were dispatched with the rules loaded
\* at startup, which are still the active ones.
C24_Witness ==
    /\ NoWatch /\ pc = "poll"
    /\ config # reload.file /\ IsSome(load_rules(ConfigFiles[config]))
    /\ Unwrap(load_rules(ConfigFiles[config])) # rules
    /\ Len(log) = 2 /\ log[1].via = "startup" /\ log[2].via = "new"
    /\ log[2].call.rules = rules

\* No reload has happened and the file main was started on does not exist.
StartedWithoutFile == reload.outcome = "none" /\ ~ConfigFiles[reload.file].exists

\* C25: started on a configuration file that does not exist, the only step
\* the process takes is from main to exit status 1: the backend is never
\* initialised, run and event_loop are never entered, and no window is
\* dispatched.
C25_Step ==
    StartedWithoutFile =>
        /\ pc = "main" /\ pc' = "config_not_found"
        /\ ExitStatus' = 1
        /\ known_clients' = <<>> /\ pending_startup' = <<>> /\ initial' = <<>>
        /\ handled' = <<>> /\ log' = <<>>
        /\ live'.handled = <<>> /\ live'.log = <<>>
        /\ rules' = <<>>

C25_MissingConfig == [][C25_Step]_vars

\* The process has exited for want of a configuration file while the
\* server had two windows in its client list.
C25_Witness ==
    /\ pc = "config_not_found" /\ StartedWithoutFile
    /\ Len(clients) = 2 /\ handled = <<>> /\ log = <<>>

\* The requests of an apply_rule call that belong to one action.
RequestsFor(action) == SelectSeq(probe.result[1], LAMBDA q : ActionOf(q) = action)
\* The size a window has when it is placed: the one the call has just asked
\* for, else the one the server reports, else 0x0.
SizeWhenPlaced(window) ==
    IF Len(RequestsFor("size")) > 0 THEN RequestsFor("size")[1].data
    ELSE IF IsSome(WindowProps(window).geometry)
         THEN <<Unwrap(WindowProps(window).geometry)[3],
                Unwrap(WindowProps(window).geometry)[4]>>
         ELSE <<0, 0>>

\* C26: a rule with a named position places the window for the size the
\* same rule has just resolved when it has a size action (one resize is
\* then requested), for the window's current size when it has none, and
\* for 0x0 when the geometry cannot be read.
C26_PlacedForNewSize ==
    (Returned("apply_rule") /\ IsSome(probe.args[2].position)
     /\ Unwrap(probe.args[2].position).kind = "Named") =>
        LET window == probe.args[1]
            rule == probe.args[2]
            a == Unwrap(rule.position).anchor
            m == resolve_monitor(window, rule)
            sz == SizeWhenPlaced(window)
        IN /\ Len(RequestsFor("size")) = (IF IsSome(rule.size) THEN 1 ELSE 0)
           /\ Len(RequestsFor("position")) = 1
           /\ RequestsFor("position")[1].data =
                 << Along(AnchorX[a], m.x, m.width, sz[1]),
                    Along(AnchorY[a], m.y, m.height, sz[2]) >>

\* An 800x600 window was resized to 400x300 and centred on the 1920x1080
\* monitor under it: at (760,390), where its old size gives (560,240).
C26_Witness ==
    /\ Returned("apply_rule") /\ probe.args[1] = 1
    /\ IsSome(probe.args[2].position)
    /\ Unwrap(probe.args[2].position) = [kind |-> "Named", anchor |-> "Center"]
    /\ Len(RequestsFor("size")) = 1
    /\ RequestsFor("size")[1].data = <<400, 300>>
    /\ RequestsFor("position")[1].data = <<760, 390>>

\* C27: an Absolute position resolves to its own coordinates whatever the
\* monitor and the window size; a Flexible position resolves on each axis
\* to the monitor's origin plus the pixel value, or plus the percentage of
\* the monitor's extent on that axis truncated toward zero.
C27_AbsoluteAndFlexible ==
    Returned("resolve_position") =>
        LET pos == probe.args[1]
            m == probe.args[2]
        IN /\ pos.kind = "Absolute" => probe.result[1] = <<pos.x, pos.y>>
           /\ pos.kind = "Flexible" =>
                 probe.result[1] = << m.x + PixelsOf(pos.x, m.width),
                                      m.y + PixelsOf(pos.y, m.height) >>

\* C28: the position written as the two strings "100" and "200" places the
\* window where the integer form [100, 200] places it, on every monitor and
\* for every window size.
C28_StringsAsAbsolute ==
    LET strings == [kind |-> "Flexible",
                    parts |-> << <<"1","0","0">>, <<"2","0","0">> >>]
        integers == [kind |-> "Absolute", coords |-> <<100, 200>>]
    IN Returned("resolve_position")
       /\ probe.args[1] = Unwrap(compile_position(strings))
       => probe.result[1] = resolve_position(Unwrap(compile_position(integers)),
                                             probe.args[2], probe.args[3])

\* The places in reqs of the desktop assignments, and of the assignment to
\* the all-desktops sentinel among them.
DesktopAssignments(reqs) == {i \in 1..Len(reqs) : reqs[i].atom = "_NET_WM_DESKTOP"}
SentinelAssignments(reqs) ==
    {i \in DesktopAssignments(reqs) : reqs[i].props = <<"0xFFFFFFFF">>}

\* C29: applying a rule with pin = true sends one desktop assignment to the
\* sentinel 0xFFFFFFFF, immediately followed by the request to add the
\* sticky state; a workspace assignment of the same rule comes before it,
\* so the last desktop assignment of the call is the sentinel.
C29_PinAfterWorkspace ==
    (Returned("apply_rule") /\ IsTrue(probe.args[2].pin)) =>
        LET reqs == probe.result[1]
            rule == probe.args[2]
        IN /\ Cardinality(SentinelAssignments(reqs)) = 1
           /\ \A s \in SentinelAssignments(reqs) :
                 /\ s < Len(reqs)
                 /\ reqs[s].window = probe.args[1]
                 /\ reqs[s + 1] = set_wm_state(probe.args[1], 1,
                                               "_NET_WM_STATE_STICKY", "0")
                 /\ \A d \in DesktopAssignments(reqs) : d <= s
                 /\ IsSome(rule.workspace) =>
                       \E d \in DesktopAssignments(reqs) :
                           d < s /\ reqs[d].data[1] = Unwrap(rule.workspace)

\* A rule with pin = true and a workspace was applied: both desktop
\* assignments were sent.
C29_Witness ==
    /\ Returned("apply_rule")
    /\ IsTrue(probe.args[2].pin)
    /\ IsSome(probe.args[2].workspace)
    /\ Cardinality(DesktopAssignments(probe.result[1])) = 2

\* Some request of reqs carries out the action a.
Issued(a, reqs) == \E i \in 1..Len(reqs) : ActionOf(reqs[i]) = a

\* C30: maximize, fullscreen, pin, minimize, shade, above, below and focus
\* issue a request exactly when the field is true, and no state is ever
\* removed; decorate issues a decoration write for true and for false;
\* workspace, size, position and opacity issue a request exactly when the
\* field is present.
C30_OnlyWhenPresent ==
    Returned("apply_rule") =>
        LET reqs == probe.result[1]
            rule == probe.args[2]
        IN /\ \A f \in Toggles \ {"decorate"} : Issued(f, reqs) <=> IsTrue(rule[f])
           /\ \A f \in ActionFields \ Toggles : Issued(f, reqs) <=> IsSome(rule[f])
           /\ Issued("decorate", reqs) <=> IsSome(rule.decorate)
           /\ IsSome(rule.decorate) =>
                 \E i \in 1..Len(reqs) :
                     reqs[i] = set_decoration(probe.args[1], Unwrap(rule.decorate))
           /\ \A i \in 1..Len(reqs) :
                 reqs[i].atom = "_NET_WM_STATE" => reqs[i].data[1] = 1

\* A rule with every toggle set to false, and a workspace, was applied: the
\* decoration write and the desktop assignment were sent, and no state
\* request.
C30_Witness ==
    /\ Returned("apply_rule")
    /\ \A f \in Toggles : IsFalse(probe.args[2][f])
    /\ IsSome(probe.args[2].workspace)
    /\ Issued("decorate", probe.result[1])
    /\ Issued("workspace", probe.result[1])
    /\ \A i \in 1..Len(probe.result[1]) : probe.result[1][i].atom # "_NET_WM_STATE"

\* A step of a wait that failed: made at poll, it costs the environment a
\* step and leaves every event source as it was.
WaitFailed ==
    /\ pc = "poll"
    /\ budget' < budget
    /\ UNCHANGED <<config, clients, sock, sig_pending, ino_pending>>

C31_Step ==
    /\ WaitFailed =>
          /\ pc' \in {"poll", "poll_failed"}
          /\ UNCHANGED <<rules, known_clients, handled, pending_startup, log, live,
                         buf, revents, reload, fetched, client_list_changed>>
    /\ pc = "poll_failed" =>
          /\ pc' \in {"poll_failed", "returned"}
          /\ UNCHANGED <<rules, known_clients, handled, pending_startup, log, live,
                         buf, sock, reload, fetched>>

\* C31: a wait that fails is either retried, with no descriptor looked at,
\* no event read, no reload and the rule set and the session state as they
\* were, or it ends the event loop, after which run only returns.
C31_FailedWait == [][C31_Step]_vars

\* poll has been called and has never returned a readable descriptor: the
\* daemon is back at poll after an interrupted wait, with a window handled.
C31_Witness ==
    /\ pc = "poll" /\ waited /\ revents = {}
    /\ Len(log) > 0

\* The client_list_changed branch runs and the read of the property fails:
\* the server holds a non-empty list and the fetch yields the empty one.
FetchFailed ==
    /\ pc = "client_list" /\ pc' # "client_list"
    /\ client_list_changed
    /\ clients # <<>> /\ fetched' = <<>>

C32_Step ==
    /\ FetchFailed =>
          /\ pc' = "poll"
          /\ log' = log /\ live'.log = live.log
          /\ handled' = handled
          /\ pending_startup' = pending_startup
          /\ known_clients' = <<>>
    /\ (pc = "client_list" /\ known_clients = <<>>) =>
          \A i \in (Len(log) + 1)..Len(log') :
              ~Contains(handled, log'[i].call.window)

\* C32: a pass whose client-list read fails goes on to poll with no window
\* dispatched, handled as it was and known_clients empty; a later pass that
\* starts from the empty known_clients dispatches no window of handled.
C32_FailedFetch == [][C32_Step]_vars

\* Window 1 was handled at startup, a fetch then failed (window 1 was seen
\* to leave the list although it never did), and a later fetch returned
\* [1, 2]: window 2 was dispatched as new, window 1 not again.
C32_Witness ==
    /\ pc = "poll"
    /\ initial = <<1>> /\ fetched = <<1, 2>> /\ known_clients = <<1, 2>>
    /\ 1 \in gone
    /\ WindowsOf(log) = <<1, 2>>

\* The percentages, in hundredths, that the position and the size of a
\* compiled rule carry.
PercentsOf(rule) ==
    LET dims == (IF IsSome(rule.position) /\ Unwrap(rule.position).kind = "Flexible"
                 THEN {Unwrap(rule.position).x, Unwrap(rule.position).y} ELSE {})
                \cup (IF IsSome(rule.size) /\ Unwrap(rule.size).kind = "Flexible"
                      THEN {Unwrap(rule.size).w, Unwrap(rule.size).h} ELSE {})
    IN {d.v : d \in {e \in dims : e.kind = "Percent"}}

\* C33: every Percent of a rule of the active rule set is a fraction within
\* [0, 1], that is between 0 and 100 hundredths.
C33_PercentInUnit ==
    \A i \in 1..Len(rules) : \A v \in PercentsOf(rules[i]) : 0 <= v /\ v <= 100

\* C34: a successful query_monitors returns a non-empty list, the single
\* monitor of the root window's size when no output is active; on that
\* list, which the backend keeps as it is, resolve_monitor returns one of
\* its monitors for every window geometry and every target, never the
\* 1920x1080 default.
C34_MonitorsNonEmpty ==
    (Returned("query_monitors") /\ IsSome(probe.result[1])) =>
        LET mons == Unwrap(probe.result[1])
            outputs == probe.args[2]
        IN /\ Len(mons) > 0
           /\ (\A i \in 1..Len(outputs) : outputs[i].status # "active") =>
                 /\ Len(mons) = 1
                 /\ <<mons[1].x, mons[1].y, mons[1].width, mons[1].height>>
                       = <<0, 0, probe.args[3][1], probe.args[3][2]>>
           /\ \A g \in 1..Len(Geometries), t \in 1..Len(MonitorTargets) :
                 LET got == ResolveMonitorIn(mons, Geometries[g], MonitorTargets[t])
                 IN got # DefaultMonitor /\ \E i \in 1..Len(mons) : got = mons[i]

\* Three outputs, none of them active, on a root window of 3200x1080: the
\* list is the one fallback monitor.
C34_Witness ==
    /\ Returned("query_monitors")
    /\ Len(probe.args[2]) = 3
    /\ \A i \in 1..3 : probe.args[2][i].status # "active"
    /\ IsSome(probe.result[1])
    /\ Unwrap(probe.result[1])[1].width = 3200

\* A process_events call has returned and none is under way.
BetweenCalls ==
    \/ pc \in {"poll", "check_signal", "check_inotify", "check_x11", "shutdown",
               "poll_failed", "returned"}
    \/ pc = "process_events" /\ waited

\* C35: whenever a process_events call has returned, every window of
\* known_clients is in handled and has been dispatched.
C35_KnownHandled ==
    BetweenCalls =>
        /\ Range(known_clients) \subseteq Range(handled)
        /\ Range(known_clients) \subseteq Range(WindowsOf(log))
        /\ Range(live.known_clients) \subseteq Range(live.handled)

\* After a later call: known_clients holds a window dispatched as new, and
\* handled holds a window that has left the list.
C35_Witness ==
    /\ pc = "poll" /\ waited
    /\ \E n \in 1..Len(log) :
          log[n].via = "new" /\ Contains(known_clients, log[n].call.window)
    /\ \E w \in Range(handled) : ~Contains(known_clients, w)

\* The last wake-up reported the watch and the connection readable, and
\* not the signal descriptor; the checks of the watch are behind.
BothReady ==
    /\ pc \in {"check_x11", "process_events", "client_list", "poll"}
    /\ waited
    /\ inotify_fd >= 0 /\ {"inotify", "x11"} \subseteq revents
    /\ ~(signal_fd >= 0 /\ "signal" \in revents)

\* C36: in a wake-up with the watch and the connection both readable, the
\* reload of the file on disk is attempted before process_events is
\* called; the rule set is the loaded one if the load succeeded and the
\* previous one if it failed, and every window dispatched in that cycle is
\* evaluated against it.
C36_ReloadBeforeEvents ==
    BothReady =>
        /\ reload.outcome \in {"ok", "failed"}
        /\ reload.outcome = "ok" <=> IsSome(load_rules(ConfigFiles[reload.file]))
        /\ rules = IF reload.outcome = "ok" THEN reload.loaded ELSE reload.before
        /\ pc # "poll" => reload.file = config
        /\ pc \in {"check_x11", "process_events"} => Len(log) = reload.at
        /\ \A n \in (reload.at + 1)..Len(log) : log[n].call.rules = rules

\* Such a cycle has ended: the reload replaced the rule set and a window
\* was dispatched after it, against the new rules.
C36_Witness ==
    /\ BothReady /\ pc = "poll"
    /\ reload.outcome = "ok" /\ reload.before # rules
    /\ Len(log) > reload.at

\* The step of event_loop that drains the watch and loads the file again.
ReloadStep == pc = "check_inotify" /\ reload' # reload

C37_Step ==
    /\ ReloadStep =>
          /\ reload'.outcome \in {"ok", "failed"}
          /\ UNCHANGED <<known_clients, handled, pending_startup, log, live>>
          /\ UNCHANGED <<sock, buf, clients>>
    /\ \A n \in (reload'.at + 1)..Len(log') :
          \A m \in 1..reload'.at : log'[n].call.window # log'[m].call.window
    /\ \A n \in (reload'.at + 1)..Len(live'.log) :
          \A m \in 1..reload'.at : live'.log[n].call.window # live'.log[m].call.window

\* C37: a reload, whether it succeeds or fails, leaves known_clients,
\* handled and pending_startup as they were and dispatches and writes
\* nothing; no window dispatched before a reload is dispatched after it.
C37_ReloadFrame == [][C37_Step]_vars

\* A successful reload changed the rule set while a handled window was in
\* the client list; a later pass dispatched another window and not that one.
C37_Witness ==
    /\ pc = "poll"
    /\ reload.outcome = "ok" /\ reload.before # rules
    /\ reload.at > 0 /\ Len(log) > reload.at
    /\ Contains(known_clients, log[1].call.window)

C38_Step ==
    /\ (pc = "process_events" /\ waited) =>
          /\ UNCHANGED <<known_clients, handled, pending_startup, log, live, fetched>>
          /\ buf' = <<>> /\ sock' = <<>>
          /\ client_list_changed' = Contains(buf \o sock, ClientListEvent)
    /\ (pc = "client_list" /\ pc' # "client_list" /\ ~client_list_changed) =>
          /\ pc' = "poll"
          /\ UNCHANGED <<known_clients, handled, pending_startup, log, live, fetched,
                         clients>>
    /\ (pc = "client_list" /\ pc' # "client_list" /\ client_list_changed) =>
          /\ pc' = "poll" /\ ~client_list_changed'
          /\ fetched' \in {clients, <<>>}
          /\ known_clients' = fetched'
          /\ NoDup(WindowsOf(Added(log, log')))

\* C38: a process_events call after startup whose drained events include
\* no change of _NET_CLIENT_LIST fetches no list, dispatches no window and
\* leaves known_clients and handled as they were; however many changes of
\* _NET_CLIENT_LIST it drains, it fetches the list once and diffs once.
C38_OnlyOnClientListChange == [][C38_Step]_vars

\* A call after startup drained events of the connection, none of them a
\* change of _NET_CLIENT_LIST, while the server's list differs from
\* known_clients.
C38_Witness ==
    /\ pc = "client_list" /\ waited /\ "x11" \in revents
    /\ ~client_list_changed
    /\ clients # known_clients

C39_Step ==
    /\ (pc = "process_events" /\ ~waited) =>
          /\ clients # initial => Contains(buf \o sock, ClientListEvent)
          /\ WindowsOf(log') = initial
          /\ \A n \in 1..Len(log') : log'[n].via = "startup"
          /\ client_list_changed' = Contains(buf \o sock, ClientListEvent)
    /\ (pc = "client_list" /\ ~waited /\ pc' = "poll" /\ client_list_changed
        /\ fetched' = clients) =>
          /\ \A w \in Range(clients) : Count(w, log') = 1 /\ Contains(handled', w)
          /\ \A n \in 1..Len(log') :
                log'[n].via = IF Contains(initial, log'[n].call.window)
                              THEN "startup" ELSE "new"

\* C39: the client list that changed after it was read at connect time has
\* its notification queued when the first process_events call starts; that
\* call dispatches every window of the initial list once from
\* pending_startup and, the list being read again, every other window of
\* the list once as new, and no window twice.
C39_StartupRace == [][C39_Step]_vars

\* The first call has returned and poll has not been called: a window that
\* appeared after the initial read was dispatched as new, after the window
\* of the initial list.
C39_Witness ==
    /\ pc = "poll" /\ ~waited
    /\ Len(initial) = 1 /\ Len(fetched) = 2
    /\ WindowsOf(log) = fetched
    /\ log[1].via = "startup" /\ log[2].via = "new"

C40_Step ==
    /\ (pc = "run" /\ pc' # "run" /\ IsNone(load_rules(ConfigFiles[config]))) =>
          /\ pc' = "load_failed"
          /\ UNCHANGED <<rules, inotify_fd, waited, known_clients, handled,
                         pending_startup, log, live, fetched, sock, buf>>
    /\ pc = "load_failed" => pc' = "load_failed"
    /\ pc' = "load_failed" =>
          /\ ~waited' /\ inotify_fd' = -1
          /\ log' = <<>> /\ live'.log = <<>> /\ handled' = <<>>
          /\ pending_startup' = initial'

\* C40: when the first load_rules fails, run returns at once: the windows
\* of the initial list stay in pending_startup undispatched, no watch is
\* set up, poll is never called, nothing is written, and no step follows.
C40_InitialLoadFails == [][C40_Step]_vars

\* run has returned on a file with a pattern that does not compile, with a
\* window waiting in pending_startup.
C40_Witness ==
    /\ pc = "load_failed"
    /\ IsSome(load(ConfigFiles[config])) /\ IsNone(load_rules(ConfigFiles[config]))
    /\ pending_startup # <<>>
====
